---- MODULE Spec2Model ----
(***************************************************************************)
(* Watcher ownership protocol of gildash (src/watcher/ownership.ts):       *)
(* acquireWatcherRole, releaseWatcherRole and updateHeartbeat over the     *)
(* watcher_owner table of the shared store, called by several processes.   *)
(* Dependency graph engine (src/search/dependency-graph.ts): build,        *)
(* patchFiles, hasCycle and getCyclePaths over the relation rows.          *)
(* Index coordinator (src/indexer/index-coordinator.ts): full index and    *)
(* incremental batches over the files, symbols and relations tables.       *)
(* Parse API (src/gildash/parse-api.ts): parseSource, batchParse and       *)
(* getParsedAst over the instance's closed flag and parse cache.           *)
(* Semantic layer (src/semantic): create, notifyFileChanged, the type      *)
(* queries and dispose.                                                    *)
(***************************************************************************)
EXTENDS Integers, FiniteSets, Sequences, TLC

\* ------------------------------------------------------------------ bounds

NumProcs == 4        \* process identities that may run
MaxPid == 2          \* operating-system pids 1..MaxPid (pids are re-used)
MaxTicks == 3        \* the wall clock advances at most this many TickMs steps
TickMs == 500        \* granularity of the wall clock, in milliseconds
MaxStale == 1        \* staleAfterSeconds is drawn from 0..MaxStale
MaxEdges == 3        \* relation rows the graph is built from
MaxPatch == 2        \* files named by one patchFiles call (changed plus deleted)
MaxEdits == 2        \* writes and removals of source files on disk
MaxBatch == 2        \* paths handed to one batchParse call
MaxDisposals == 2    \* dispose() calls on one semantic layer

\* ------------------------------------------------------- program constants

MsPerSecond == 1000  \* the divisor of the heartbeat age computation
NaN == -1            \* Date.getTime() of an unparsable string

\* --------------------------------------------------------------- processes

\* The wall clock when the model starts: further from the epoch than any
\* threshold an acquire is called with.
StartMs == (MaxStale + 1) * MsPerSecond

Procs == 1..NumProcs
Pids == 1..MaxPid

NULL == "null"       \* instance_id null / options.instanceId undefined

\* The pid the operating system gave process p; pids wrap around, so two
\* process identities may carry the same pid (never at the same time).
procPid(p) == ((p - 1) % MaxPid) + 1

InstanceNames == <<"uuid-A", "uuid-B", "uuid-C", "uuid-D", "uuid-E", "uuid-F">>

\* The instance identifier process p was opened with: random per process,
\* hence distinct; every fourth identity is opened without one.
procInstance(p) == IF p % 4 = 0 THEN NULL ELSE InstanceNames[p]

VARIABLES
    rows,      \* the watcher_owner table: a set of WatcherOwnerRow
    clock,     \* the wall clock, epoch milliseconds
    running,   \* the process identities that are alive
    role,      \* role[p]: what p's last acquire returned ("none" before / after release)
    released,  \* TRUE from a release by the row's pid until the next acquire
    wonFromDead, \* TRUE while the row is one an acquire wrote over a dead pid's row
    last       \* the store call that produced this state, with its pre-state

ownerVars == <<rows, clock, running, role, released, wonFromDead, last>>

VARIABLES
    graphRepo, \* the relation rows the graph reads: a set of <<src, dst>>
    forward,   \* forward adjacency map: forward[f] = the files f depends on
    reverse,   \* reverse adjacency map: reverse[f] = the files that depend on f
    graphState, \* "new" before build(), then "built", "patched" after patchFiles
    lastPatch  \* whether the last patchFiles call named changed / deleted files

graphVars == <<graphRepo, forward, reverse, graphState, lastPatch>>

VARIABLES
    disk,         \* the source tree: the text of each path, or Absent
    edits,        \* writes and removals made so far
    fileRows,     \* the files table
    symbolRows,   \* the symbols table, one entry per file that has symbol rows
    relationRows, \* the relations table
    pending,      \* watcher events not yet handed to an incremental batch
    run           \* the index run in progress, or the outcome of the last one

storeVars == <<fileRows, symbolRows, relationRows>>

indexVars == <<disk, edits, fileRows, symbolRows, relationRows, pending, run>>

VARIABLES
    closed,     \* ctx.closed
    parseCache, \* ctx.parseCache: the parsed file cached for each path
    call,       \* the API call in flight, or the last one made, with its outcome
    graphCache  \* ctx.graphCache, and what the last graph query was answered from

apiVars == <<closed, parseCache, call, graphCache>>

VARIABLES
    layer       \* the SemanticLayer: its program, symbol graph and disposal

semanticVars == <<layer>>

vars == <<ownerVars, graphVars, indexVars, apiVars, semanticVars>>

\* ------------------------------------------------------ heartbeat_at strings

\* An ISO-8601 string as Date.toISOString() prints it: whole seconds and a
\* three-digit millisecond field.
toISOString(ms) == [valid |-> TRUE, sec |-> ms \div MsPerSecond, milli |-> ms % MsPerSecond]

\* A heartbeat_at text that new Date() cannot parse.
InvalidDate == [valid |-> FALSE, sec |-> 0, milli |-> 0]

\* new Date(value).getTime()
DateGetTime(value) == IF value.valid THEN value.sec * MsPerSecond + value.milli ELSE NaN

\* Date.now() returned for an unparsable string, instead of 0.
toEpochMs_nanAsNow(value) ==
    LET ms == DateGetTime(value)
    IN  IF ms = NaN THEN clock ELSE ms

toEpochMs(value) ==
    LET ms == DateGetTime(value)
    IN  IF ms = NaN THEN 0 ELSE ms

\* ------------------------------------------------------------- the store

WatcherOwnerRow(pid, heartbeat_at, instance_id) ==
    [pid |-> pid, heartbeat_at |-> heartbeat_at, instance_id |-> instance_id]

\* selectOwner(): the row, or undefined (the empty set) when the table is empty.
selectOwner(db) == IF db = {} THEN {} ELSE {CHOOSE r \in db : TRUE}

insertOwner(db, pid, instanceId, now) ==
    db \cup {WatcherOwnerRow(pid, toISOString(now), instanceId)}

replaceOwner(db, pid, instanceId, now) ==
    {WatcherOwnerRow(pid, toISOString(now), instanceId)}

touchOwner(db, pid, now) ==
    {IF r.pid = pid THEN [r EXCEPT !.heartbeat_at = toISOString(now)] ELSE r : r \in db}

deleteOwner(db, pid) == {r \in db : r.pid # pid}

\* ------------------------------------------------------------- ownership.ts

\* isAlive(pid): signal 0 reaches a process with that pid.
isAlive(alive, pid) == \E q \in alive : procPid(q) = pid

\* What process.kill(pid, 0) can do: return, or throw an error whose code is
\* ESRCH or EPERM, or throw a value that carries no code.
KillOutcomes == {"ok", "ESRCH", "EPERM", "nocode"}

\* The outcomes signal 0 can have for pid: a missing process gives ESRCH, an
\* existing one is reached or refused, and an error without a code can come
\* up either way.
processKill(alive, pid) ==
    IF isAlive(alive, pid) THEN {"ok", "EPERM", "nocode"} ELSE {"ESRCH", "nocode"}

\* A probe that takes every failed signal for a dead process.
defaultIsAlive_anyErrorIsDead(outcome) == outcome = "ok"

\* defaultIsAlive(pid), given what process.kill(pid, 0) did.
defaultIsAlive(outcome) ==
    IF outcome = "ok"
    THEN TRUE
    ELSE IF outcome # "nocode"
         THEN outcome # "ESRCH"
         ELSE TRUE

\* A store whose failing transaction has run its body and kept the writes.
immediateTransaction_keepsWrites(busy, db, fn) ==
    IF busy
    THEN [threw |-> TRUE, role |-> "none", db |-> fn.db]
    ELSE [threw |-> FALSE, role |-> fn.role, db |-> fn.db]

\* db.immediateTransaction(fn): a store that cannot take the write lock
\* throws before fn has run; otherwise fn's result and writes are returned.
immediateTransaction(busy, db, fn) ==
    IF busy
    THEN [threw |-> TRUE, role |-> "none", db |-> db]
    ELSE [threw |-> FALSE, role |-> fn.role, db |-> fn.db]

\* Math.ceil in place of Math.floor.
heartbeatAgeSeconds_ceil(now, owner) ==
    -((toEpochMs(owner.heartbeat_at) - now) \div MsPerSecond)

\* The subtraction written the wrong way round.
heartbeatAgeSeconds_swapped(now, owner) ==
    (toEpochMs(owner.heartbeat_at) - now) \div MsPerSecond

heartbeatAgeSeconds(now, owner) ==
    (now - toEpochMs(owner.heartbeat_at)) \div MsPerSecond

\* The branch taken for the caller's own pid instead of for another pid.
pidRecycled_samePid(owner, pid, instanceId, pidAlive) ==
    /\ pidAlive
    /\ instanceId # NULL
    /\ owner.instance_id # NULL
    /\ owner.instance_id # instanceId
    /\ owner.pid = pid

\* The branch without its owner.pid !== pid conjunct.
pidRecycled_anyPid(owner, pid, instanceId, pidAlive) ==
    /\ pidAlive
    /\ instanceId # NULL
    /\ owner.instance_id # NULL
    /\ owner.instance_id # instanceId

\* The PID-recycling condition.
pidRecycled(owner, pid, instanceId, pidAlive) ==
    /\ pidAlive
    /\ instanceId # NULL
    /\ owner.instance_id # NULL
    /\ owner.instance_id # instanceId
    /\ owner.pid # pid

\* The stale check with <= in place of <.
heartbeatFresh_leq(owner, now, staleAfterSeconds, pidAlive) ==
    pidAlive /\ heartbeatAgeSeconds(now, owner) <= staleAfterSeconds

\* The stale check without the liveness probe.
heartbeatFresh_noProbe(owner, now, staleAfterSeconds, pidAlive) ==
    heartbeatAgeSeconds(now, owner) < staleAfterSeconds

\* The fresh-heartbeat condition.
heartbeatFresh(owner, now, staleAfterSeconds, pidAlive) ==
    pidAlive /\ heartbeatAgeSeconds(now, owner) < staleAfterSeconds

\* The takeover written with insertOwner instead of replaceOwner.
acquireWatcherRole_insertOnTakeover(db, pid, options) ==
    LET found == selectOwner(db)
    IN  IF found = {}
        THEN [role |-> "owner",
              db |-> insertOwner(db, pid, options.instanceId, options.now)]
        ELSE
          LET owner == CHOOSE r \in found : TRUE
              pidAlive == isAlive(options.alive, owner.pid)
          IN  IF pidRecycled(owner, pid, options.instanceId, pidAlive)
              THEN [role |-> "owner",
                    db |-> replaceOwner(db, pid, options.instanceId, options.now)]
              ELSE IF heartbeatFresh(owner, options.now, options.staleAfterSeconds, pidAlive)
              THEN [role |-> "reader", db |-> db]
              ELSE [role |-> "owner",
                    db |-> insertOwner(db, pid, options.instanceId, options.now)]

\* The first insert made without the caller's instance identifier.
acquireWatcherRole_insertNoInstance(db, pid, options) ==
    LET found == selectOwner(db)
    IN  IF found = {}
        THEN [role |-> "owner",
              db |-> insertOwner(db, pid, NULL, options.now)]
        ELSE
          LET owner == CHOOSE r \in found : TRUE
              pidAlive == isAlive(options.alive, owner.pid)
          IN  IF pidRecycled(owner, pid, options.instanceId, pidAlive)
              THEN [role |-> "owner",
                    db |-> replaceOwner(db, pid, options.instanceId, options.now)]
              ELSE IF heartbeatFresh(owner, options.now, options.staleAfterSeconds, pidAlive)
              THEN [role |-> "reader", db |-> db]
              ELSE [role |-> "owner",
                    db |-> replaceOwner(db, pid, options.instanceId, options.now)]

\* The body of the immediate transaction: the role returned and the table
\* it leaves.  options = [now, alive, staleAfterSeconds, instanceId].
acquireWatcherRole(db, pid, options) ==
    LET found == selectOwner(db)
    IN  IF found = {}
        THEN [role |-> "owner",
              db |-> insertOwner(db, pid, options.instanceId, options.now)]
        ELSE
          LET owner == CHOOSE r \in found : TRUE
              pidAlive == isAlive(options.alive, owner.pid)
          IN  IF pidRecycled(owner, pid, options.instanceId, pidAlive)
              THEN [role |-> "owner",
                    db |-> replaceOwner(db, pid, options.instanceId, options.now)]
              ELSE IF heartbeatFresh(owner, options.now, options.staleAfterSeconds, pidAlive)
              THEN [role |-> "reader", db |-> db]
              ELSE [role |-> "owner",
                    db |-> replaceOwner(db, pid, options.instanceId, options.now)]

\* release that deletes whatever row there is.
releaseWatcherRole_anyPid(db, pid) == UNION {deleteOwner(db, r.pid) : r \in db}

\* release written with touchOwner instead of deleteOwner.
releaseWatcherRole_touch(db, pid) == touchOwner(db, pid, 0)

releaseWatcherRole(db, pid) == deleteOwner(db, pid)

\* The heartbeat written with replaceOwner instead of touchOwner.
updateHeartbeat_replace(db, pid, now) == replaceOwner(db, pid, NULL, now)

updateHeartbeat(db, pid, now) == touchOwner(db, pid, now)

\* ------------------------------------------------------------------ states

NoCall == [op |-> "none", proc |-> 0, stale |-> 0, result |-> "none", pre |-> {},
           afterRelease |-> FALSE, was |-> "none", afterDeath |-> FALSE,
           probe |-> "none"]

\* The table a session may find: empty, or the row a previous session left
\* behind (written as the model starts, or with an unreadable text).
LeftoverRows ==
    {WatcherOwnerRow(pid, hb, NULL) : pid \in Pids, hb \in {toISOString(StartMs), InvalidDate}}

\* No graph has been constructed.
GraphIdle ==
    /\ graphRepo = {}
    /\ forward = <<>>
    /\ reverse = <<>>
    /\ graphState = "new"
    /\ lastPatch = [changed |-> FALSE, deleted |-> FALSE]

\* The text of a path that does not exist.
Absent == "absent"

EmptyStore == [files |-> {}, symbols |-> {}, relations |-> {}]

\* No index run has been started.
NoRun ==
    [phase |-> "idle", kind |-> "none", todo |-> {}, deleted |-> {},
     prepared |-> <<>>, failedFiles |-> {}, knownFiles |-> {},
     before |-> EmptyStore, wrote |-> FALSE, asBefore |-> TRUE,
     indexed |-> {}, notified |-> FALSE,
     insertFailed |-> <<>>, relationsKept |-> TRUE]

\* The root-relative paths of the source tree, as path segments.
Paths == {<<"a.ts">>, <<"store.ts">>, <<"store", "index.ts">>}

\* No coordinator has been opened on the project.
IndexIdle ==
    /\ disk = [f \in Paths |-> Absent]
    /\ edits = 0
    /\ fileRows = {}
    /\ symbolRows = {}
    /\ relationRows = {}
    /\ pending = [changed |-> {}, deleted |-> {}]
    /\ run = NoRun

\* What Map.get answers for a key the map does not hold.
Undefined == "undefined"

\* No call has been made.
NoApiCall ==
    [op |-> "none", phase |-> "done", wasClosed |-> FALSE, outcome |-> "none",
     error |-> "none", value |-> Undefined, filePath |-> <<>>, sourceText |-> "none",
     filePaths |-> <<>>, waiting |-> {}, parsed |-> {}, failures |-> <<>>,
     parserCalls |-> 0, fileReads |-> 0]

\* No graph is cached (graph is the empty set, or holds the one cached
\* graph) and no graph query has been made.
NoGraphCache ==
    [graph |-> {}, key |-> Undefined, outdated |-> FALSE,
     droppedOutdated |-> FALSE, answer |-> "none"]

\* An open instance with an empty parse cache and no cached graph.
ApiIdle ==
    /\ closed = FALSE
    /\ parseCache = [f \in Paths |-> Undefined]
    /\ call = NoApiCall
    /\ graphCache = NoGraphCache

\* SemanticLayer.create(): nothing tracked, nothing cached, not disposed.
Created ==
    [isDisposed |-> FALSE,
     program |-> [f \in Paths |-> Undefined],
     symbolGraph |-> {},
     disposeOutcomes |-> <<>>,
     afterFirst |-> [isDisposed |-> FALSE, program |-> [f \in Paths |-> Undefined],
                     symbolGraph |-> {}],
     op |-> "create", wasDisposed |-> FALSE, outcome |-> "returned", value |-> Undefined]

SemanticIdle == layer = Created

Init ==
    /\ GraphIdle
    /\ IndexIdle
    /\ ApiIdle
    /\ SemanticIdle
    /\ rows \in {{}} \cup {{r} : r \in LeftoverRows}
    /\ clock = StartMs
    /\ running = {}
    /\ role = [p \in Procs |-> "none"]
    /\ released = FALSE
    /\ wonFromDead = FALSE
    /\ last = NoCall

\* ----------------------------------------------------------------- actions

\* A process starts; the operating system gives it a pid nobody holds.
Spawn(p) ==
    /\ p \notin running
    /\ ~isAlive(running, procPid(p))
    /\ running' = running \cup {p}
    /\ role' = [role EXCEPT ![p] = "none"]
    /\ last' = NoCall
    /\ UNCHANGED <<rows, clock, released, wonFromDead>>
    /\ UNCHANGED <<graphVars, indexVars, apiVars, semanticVars>>

\* A process dies without releasing.
Die(p) ==
    /\ p \in running
    /\ running' = running \ {p}
    /\ role' = [role EXCEPT ![p] = "none"]
    /\ last' = NoCall
    /\ UNCHANGED <<rows, clock, released, wonFromDead>>
    /\ UNCHANGED <<graphVars, indexVars, apiVars, semanticVars>>

Tick ==
    /\ clock + TickMs <= StartMs + MaxTicks * TickMs
    /\ clock' = clock + TickMs
    /\ last' = NoCall
    /\ UNCHANGED <<rows, running, role, released, wonFromDead>>
    /\ UNCHANGED <<graphVars, indexVars, apiVars, semanticVars>>

Acquire(p, stale) ==
    /\ p \in running
    /\ LET res == acquireWatcherRole(rows, procPid(p),
                     [now |-> clock, alive |-> running,
                      staleAfterSeconds |-> stale, instanceId |-> procInstance(p)])
       IN  /\ rows' = res.db
           /\ role' = [role EXCEPT ![p] = res.role]
           /\ last' = [op |-> "acquire", proc |-> p, stale |-> stale,
                       result |-> res.role, pre |-> rows,
                       afterRelease |-> released, was |-> role[p],
                       afterDeath |-> wonFromDead, probe |-> "none"]
           /\ wonFromDead' = IF res.role = "owner"
                             THEN \E o \in rows : ~isAlive(running, o.pid)
                             ELSE wonFromDead
    /\ released' = FALSE
    /\ UNCHANGED <<clock, running>>
    /\ UNCHANGED <<graphVars, indexVars, apiVars, semanticVars>>

Release(p) ==
    /\ p \in running
    /\ rows' = releaseWatcherRole(rows, procPid(p))
    /\ role' = [role EXCEPT ![p] = "none"]
    /\ released' = (released \/ \E r \in rows : r.pid = procPid(p))
    /\ wonFromDead' = (wonFromDead /\ rows' = rows)
    /\ last' = [op |-> "release", proc |-> p, stale |-> 0, result |-> "none", pre |-> rows,
                afterRelease |-> FALSE, was |-> role[p], afterDeath |-> FALSE,
                probe |-> "none"]
    /\ UNCHANGED <<clock, running>>
    /\ UNCHANGED <<graphVars, indexVars, apiVars, semanticVars>>

Heartbeat(p) ==
    /\ p \in running
    /\ rows' = updateHeartbeat(rows, procPid(p), clock)
    /\ last' = [op |-> "heartbeat", proc |-> p, stale |-> 0, result |-> "none", pre |-> rows,
                afterRelease |-> FALSE, was |-> role[p], afterDeath |-> FALSE,
                probe |-> "none"]
    /\ UNCHANGED <<clock, running, role, released, wonFromDead>>
    /\ UNCHANGED <<graphVars, indexVars, apiVars, semanticVars>>

Next ==
    \/ \E p \in Procs : Spawn(p)
    \/ \E p \in Procs : Die(p)
    \/ Tick
    \/ \E p \in Procs, k \in 0..MaxStale : Acquire(p, MaxStale - k)
    \/ \E p \in Procs : Release(p)
    \/ \E p \in Procs : Heartbeat(p)

Spec == Init /\ [][Next]_vars

\* The reader loop: a process that is not the owner probes ownership again,
\* with the largest threshold of the model.
Poll(p) ==
    /\ role[p] # "owner"
    /\ Acquire(p, MaxStale)

\* Owners that have gone silent (no heartbeat, no release) and readers that
\* keep polling while time advances.
\* The processes that take part: one per pid, and one more that comes back
\* under the first pid.
Watchers == 1..(MaxPid + 1)

LiveNext ==
    \/ \E p \in Watchers : Spawn(p)
    \/ \E p \in Watchers : Die(p)
    \/ Tick
    \/ \E p \in Watchers : Poll(p)

LiveSpec ==
    /\ Init
    /\ [][LiveNext]_vars
    /\ WF_vars(Tick)
    /\ \A p \in Watchers : WF_vars(Poll(p))

\* acquireWatcherRole called without an isAlive option, on a store whose
\* write lock may be taken: the probe is defaultIsAlive over what signal 0
\* does for the row's pid, and a busy store makes the call throw.
AcquireDefault(p, stale, outcome, busy) ==
    /\ p \in running
    /\ \A o \in rows : outcome \in processKill(running, o.pid)
    /\ LET probed == {q \in Procs : defaultIsAlive(outcome)}
           res == immediateTransaction(busy, rows,
                     acquireWatcherRole(rows, procPid(p),
                        [now |-> clock, alive |-> probed,
                         staleAfterSeconds |-> stale, instanceId |-> procInstance(p)]))
       IN  /\ rows' = res.db
           /\ role' = [role EXCEPT ![p] = IF res.threw THEN "failed" ELSE res.role]
           /\ last' = [op |-> IF res.threw THEN "acquireThrew" ELSE "acquire",
                       proc |-> p, stale |-> stale,
                       result |-> res.role, pre |-> rows,
                       afterRelease |-> FALSE, was |-> role[p], afterDeath |-> FALSE,
                       probe |-> IF rows = {} \/ res.threw THEN "none" ELSE outcome]
    /\ UNCHANGED <<clock, running, released, wonFromDead>>
    /\ UNCHANGED <<graphVars, indexVars, apiVars, semanticVars>>

\* Two watchers under different pids that use the default probe on a store
\* that can be busy.
Contenders == {1, MaxPid}

FaultNext ==
    \/ \E p \in Contenders : Spawn(p)
    \/ \E p \in Contenders : Die(p)
    \/ Tick
    \/ \E p \in Contenders, k \in 0..MaxStale, outcome \in KillOutcomes, busy \in BOOLEAN :
         AcquireDefault(p, MaxStale - k, outcome, busy)

FaultSpec == Init /\ [][FaultNext]_vars

\* ------------------------------------------------------------------ claims

\* The call that produced the current state, read by the claims below.
AcquireReturned == last.op = "acquire"
Caller == last.proc
CallerPid == procPid(last.proc)
CallerInstance == procInstance(last.proc)

\* The row an acquire leaves when it takes the table over at the current time.
CallerRow == [pid |-> CallerPid,
              heartbeat_at |-> [valid |-> TRUE, sec |-> clock \div 1000, milli |-> clock % 1000],
              instance_id |-> CallerInstance]

\* Whether some live process carries pid.
PidIsLive(pid) == \E q \in running : procPid(q) = pid

\* The milliseconds a parsable heartbeat text denotes.
HeartbeatMs(o) == o.heartbeat_at.sec * 1000 + o.heartbeat_at.milli

\* Heartbeat age k in whole seconds: k * 1000 <= now - heartbeat < (k + 1) * 1000.
AgeBelow(o, k) == clock - HeartbeatMs(o) < k * 1000
AgeAtLeast(o, k) == clock - HeartbeatMs(o) >= k * 1000

\* Row o and the caller both carry an instance identifier and the two differ.
InstancesDiffer(o) ==
    o.instance_id # "null" /\ CallerInstance # "null" /\ o.instance_id # CallerInstance

\* C1: at most one live process (distinct pids, each with its own instance
\* identifier) holds the owner role, from its acquire returning owner until
\* its release or a later acquire of its own returning reader.
C1_AtMostOneOwner ==
    Cardinality({p \in running : procInstance(p) # "null" /\ role[p] = "owner"}) <= 1

\* C2: right after an acquire that returned owner the table holds exactly one
\* row and it carries the caller's pid; the table never holds two rows.
C2_OwnerHasTheOnlyRow ==
    /\ Cardinality(rows) <= 1
    /\ (AcquireReturned /\ last.result = "owner")
         => (Cardinality(rows) = 1 /\ \A r \in rows : r.pid = CallerPid)

C2_Witness ==
    AcquireReturned /\ last.result = "owner" /\ last.pre # {} /\ last.pre # rows

\* C3: against a row whose pid is alive, whose (parsable) heartbeat is younger
\* than staleAfterSeconds in whole seconds and for which the PID-recycling
\* condition does not hold, acquire returns reader and leaves the row as it was.
C3_FreshLiveOwnerKept ==
    AcquireReturned =>
      \A o \in last.pre :
        ( /\ o.heartbeat_at.valid
          /\ PidIsLive(o.pid)
          /\ AgeBelow(o, last.stale)
          /\ ~(InstancesDiffer(o) /\ o.pid # CallerPid) )
        => (last.result = "reader" /\ rows = last.pre)

\* A second reader answer in a row: the caller was a reader already, the
\* heartbeat is some hundred milliseconds old and the row is not the caller's.
C3_Witness ==
    /\ AcquireReturned /\ last.was = "reader" /\ last.result = "reader" /\ rows = last.pre
    /\ \E o \in last.pre :
         o.pid # CallerPid /\ o.heartbeat_at.valid /\ clock - HeartbeatMs(o) > 0

\* C4: against a row whose pid is dead an acquire by another process replaces
\* the row with the caller's pid and instance id and returns owner, however
\* fresh the heartbeat.
C4_DeadOwnerReplaced ==
    AcquireReturned =>
      \A o \in last.pre :
        (~PidIsLive(o.pid)) => (last.result = "owner" /\ rows = {CallerRow})

C4_Witness ==
    /\ AcquireReturned /\ last.result = "owner" /\ last.stale > 0
    /\ \E o \in last.pre :
         ~PidIsLive(o.pid) /\ o.heartbeat_at.valid /\ AgeBelow(o, last.stale)

\* C5: against a row whose heartbeat age in whole seconds is at least
\* staleAfterSeconds acquire replaces the row and returns owner although the
\* row's pid is alive; an age equal to the threshold is stale.
C5_StaleOwnerReplaced ==
    AcquireReturned =>
      \A o \in last.pre :
        (o.heartbeat_at.valid /\ AgeAtLeast(o, last.stale))
        => (last.result = "owner" /\ rows = {CallerRow})

\* Age exactly at a positive threshold, live pid, no PID recycling involved.
C5_Witness ==
    /\ AcquireReturned /\ last.result = "owner" /\ last.stale > 0
    /\ \E o \in last.pre :
         /\ o.heartbeat_at.valid /\ PidIsLive(o.pid) /\ ~InstancesDiffer(o)
         /\ AgeAtLeast(o, last.stale) /\ AgeBelow(o, last.stale + 1)

\* C6: against a live row pid, with both instance identifiers present and
\* different and row.pid different from the caller's pid, acquire replaces the
\* row with (caller pid, caller instance id) and returns owner, even when the
\* heartbeat is fresh.
C6_RecycledPidReplaced ==
    AcquireReturned =>
      \A o \in last.pre :
        (PidIsLive(o.pid) /\ InstancesDiffer(o) /\ o.pid # CallerPid)
        => (last.result = "owner" /\ rows = {CallerRow})

C6_Witness ==
    /\ AcquireReturned /\ last.result = "owner" /\ last.stale > 0
    /\ \E o \in last.pre :
         /\ PidIsLive(o.pid) /\ InstancesDiffer(o) /\ o.pid # CallerPid
         /\ o.heartbeat_at.valid /\ AgeBelow(o, last.stale)

\* C7: when row.pid is the caller's pid and the instance identifiers differ,
\* acquire returns reader and leaves the row while the heartbeat is fresh, and
\* replaces the row and returns owner once it is stale.
C7_SamePidWaitsForStale ==
    AcquireReturned =>
      \A o \in last.pre :
        (o.pid = CallerPid /\ o.instance_id # CallerInstance /\ o.heartbeat_at.valid)
        => /\ AgeBelow(o, last.stale) => (last.result = "reader" /\ rows = last.pre)
           /\ AgeAtLeast(o, last.stale) => (last.result = "owner" /\ rows = {CallerRow})

C7_Witness ==
    /\ AcquireReturned /\ last.result = "reader" /\ rows = last.pre
    /\ \E o \in last.pre : o.pid = CallerPid /\ InstancesDiffer(o)

\* C8: with no row in the table acquire inserts a row with the caller's pid
\* and instance id and returns owner, whatever isAlive and staleAfterSeconds.
C8_EmptyTableInserts ==
    (AcquireReturned /\ last.pre = {})
      => (last.result = "owner" /\ rows = {CallerRow})

C8_Witness ==
    /\ AcquireReturned /\ last.pre = {} /\ last.result = "owner"
    /\ CallerInstance # "null" /\ last.stale > 0

\* C9: after a release called with the pid the row names (the current owner's
\* release), the next acquire, whoever makes it, returns owner and the row
\* then names that caller.
C9_ReleaseThenAcquire ==
    (AcquireReturned /\ last.afterRelease)
      => (last.result = "owner" /\ rows # {} /\ \A r \in rows : r.pid = CallerPid)

\* The acquire after a release is made while a process that was answered
\* owner earlier in the run is still alive: a later round.
C9_Witness ==
    /\ AcquireReturned /\ last.afterRelease /\ last.result = "owner"
    /\ \E q \in running : q # Caller /\ role[q] = "reader"

\* C10: updateHeartbeat(pid) sets the heartbeat to the current time iff a row
\* with that pid exists, changes nothing otherwise, and never changes the
\* row's pid or instance id.
C10_HeartbeatOnlyOwnRow ==
    last.op = "heartbeat" =>
      /\ \A o \in last.pre :
           IF o.pid = CallerPid
           THEN rows = {[o EXCEPT !.heartbeat_at = CallerRow.heartbeat_at]}
           ELSE rows = last.pre
      /\ (last.pre = {}) => (rows = {})
      /\ {<<r.pid, r.instance_id>> : r \in rows} = {<<o.pid, o.instance_id>> : o \in last.pre}

C10_Witness ==
    /\ last.op = "heartbeat"
    /\ \E o \in last.pre : o.pid = CallerPid /\ rows # last.pre

\* C11: release(pid) deletes the row iff the row's pid equals pid; called
\* with any other pid it leaves the row as it was.
C11_ReleaseOnlyOwnRow ==
    last.op = "release" =>
      /\ \A o \in last.pre : IF o.pid = CallerPid THEN rows = {} ELSE rows = last.pre
      /\ (last.pre = {}) => (rows = {})

\* A release by a live process against the row of another live process.
C11_Witness ==
    /\ last.op = "release" /\ rows # {} /\ rows = last.pre
    /\ \E o \in rows : o.pid # CallerPid /\ PidIsLive(o.pid)

\* C12: with staleAfterSeconds = 0 acquire returns owner and leaves the
\* caller's row, whatever the row it found and whether that row's pid lives.
C12_ZeroThresholdPromotes ==
    (AcquireReturned /\ last.stale = 0)
      => (last.result = "owner" /\ rows = {CallerRow})

\* Threshold 0 against a live pid's row written at this very millisecond,
\* with no instance identifier mismatch to explain the takeover.
C12_Witness ==
    /\ AcquireReturned /\ last.stale = 0 /\ last.result = "owner"
    /\ \E o \in last.pre :
         /\ o.heartbeat_at.valid /\ HeartbeatMs(o) = clock
         /\ PidIsLive(o.pid) /\ o.pid # CallerPid /\ ~InstancesDiffer(o)

\* C13 as claimed: against a row whose heartbeat text cannot be parsed the
\* stale check runs with a heartbeat age of 0 seconds: outside the
\* PID-recycling branch acquire answers reader exactly when the row's pid is
\* alive and 0 < staleAfterSeconds.
C13_UnparsableAgeZero ==
    AcquireReturned =>
      \A o \in last.pre :
        (~o.heartbeat_at.valid /\ ~(PidIsLive(o.pid) /\ InstancesDiffer(o) /\ o.pid # CallerPid))
        => (last.result = "reader" <=> (PidIsLive(o.pid) /\ 0 < last.stale))

\* C13 amended: an unparsable heartbeat text is read as the epoch, so the
\* stale check runs with an age of floor(now / 1000) seconds: outside the
\* PID-recycling branch acquire answers reader exactly when the row's pid is
\* alive and floor(now / 1000) < staleAfterSeconds, and owner otherwise.
C13_UnparsableIsEpoch ==
    AcquireReturned =>
      \A o \in last.pre :
        (~o.heartbeat_at.valid /\ ~(PidIsLive(o.pid) /\ InstancesDiffer(o) /\ o.pid # CallerPid))
        => /\ last.result = "reader" <=> (PidIsLive(o.pid) /\ clock \div 1000 < last.stale)
           /\ last.result = "owner" => rows = {CallerRow}
           /\ last.result = "reader" => rows = last.pre

C13_Witness ==
    /\ AcquireReturned /\ last.stale > 0 /\ last.result = "owner"
    /\ \E o \in last.pre :
         ~o.heartbeat_at.valid /\ PidIsLive(o.pid) /\ o.pid # CallerPid /\ ~InstancesDiffer(o)

\* C14: once an acquire has taken the row over from a dead owner, every later
\* contender that finds the winner alive and the winner's row fresh is
\* answered reader and leaves the row with the winner: one owner per death.
C14_OneWinnerPerDeath ==
    (AcquireReturned /\ last.afterDeath) =>
      \A o \in last.pre :
        ( /\ o.pid # CallerPid
          /\ \E w \in running : procPid(w) = o.pid /\ procInstance(w) = o.instance_id
                                /\ role[w] = "owner"
          /\ o.heartbeat_at.valid /\ AgeBelow(o, last.stale) )
        => (last.result = "reader" /\ rows = last.pre)

\* The clock can still reach the point where row o is stale for MaxStale.
TimeEnough(o) ==
    ~o.heartbeat_at.valid \/ HeartbeatMs(o) + MaxStale * 1000 <= StartMs + MaxTicks * TickMs

\* C15: a reader that keeps polling while the row's holder is silent (dead,
\* or alive without heartbeat) sees the row taken over: from every state in
\* which p polls a row that can still go stale, an acquire returns owner over
\* an existing row, unless p itself dies first.
C15_SilentOwnerIsReplaced ==
    \A p \in Procs :
      (p \in running /\ role[p] # "owner" /\ rows # {} /\ \A o \in rows : TimeEnough(o))
      ~> (p \notin running \/ (AcquireReturned /\ last.result = "owner" /\ last.pre # {}))

\* A reader that was answered reader before is answered owner over the row of
\* a live process once that row is stale, with no instance mismatch involved.
C15_Witness ==
    /\ AcquireReturned /\ last.was = "reader" /\ last.result = "owner"
    /\ \E o \in last.pre :
         /\ PidIsLive(o.pid) /\ o.pid # CallerPid /\ ~InstancesDiffer(o)
         /\ o.heartbeat_at.valid /\ AgeAtLeast(o, last.stale)


Probed == AcquireReturned /\ last.probe # "none"

\* The PID-recycling branch applies to row o once its pid is taken for alive.
RecyclingApplies(o) == InstancesDiffer(o) /\ o.pid # CallerPid

\* C32: with the default liveness probe the row's pid is taken for dead only
\* when signal 0 fails with ESRCH: against a fresh row (outside the
\* PID-recycling branch) acquire returns reader and keeps the row when the
\* signal succeeds, fails with EPERM or fails with an error carrying no code,
\* and returns owner over the row when it fails with ESRCH.
C32_DeadOnlyOnESRCH ==
    Probed =>
      \A o \in last.pre :
        (o.heartbeat_at.valid /\ AgeBelow(o, last.stale) /\ ~RecyclingApplies(o))
        => /\ last.probe \in {"ok", "EPERM", "nocode"} => (last.result = "reader" /\ rows = last.pre)
           /\ last.probe = "ESRCH" => (last.result = "owner" /\ rows = {CallerRow})

\* A signal refused with EPERM, or failing without a code, has left the
\* fresh row of another pid in place and the caller a reader.
C32_Witness ==
    /\ Probed /\ last.probe \in {"EPERM", "nocode"}
    /\ last.result = "reader" /\ role[Caller] = "reader"
    /\ \E o \in rows : o.pid # CallerPid /\ o.heartbeat_at.valid /\ AgeBelow(o, last.stale)

\* The last acquire threw out of its transaction.
AcquireThrew == last.op = "acquireThrew"

\* C33: an acquire whose immediate transaction fails passes the error on to
\* its caller and writes no ownership row; a later acquire by that caller
\* whose transaction succeeds on the still-empty table inserts the caller's
\* row and returns owner.
C33_BusyStoreWritesNothing ==
    /\ AcquireThrew => (rows = last.pre /\ role[Caller] = "failed")
    /\ (AcquireReturned /\ last.was = "failed" /\ last.pre = {})
       => (last.result = "owner" /\ rows = {CallerRow})

\* A caller whose previous acquire threw on an empty table has now been
\* answered owner.
C33_Witness ==
    /\ AcquireReturned /\ last.was = "failed" /\ last.pre = {}
    /\ role[Caller] = "owner" /\ rows = {CallerRow}


\* C37 as claimed: after every acquire that returns, the answer is owner
\* exactly when the row's pid is the caller's pid, and reader exactly when
\* the row names a different pid.
C37_RoleAgreesWithRow ==
    AcquireReturned =>
      /\ last.result = "owner" <=> (\E r \in rows : r.pid = CallerPid)
      /\ last.result = "reader" <=> (\E r \in rows : r.pid # CallerPid)

\* C37 amended: an answer of owner leaves the caller's row as the only row,
\* and a row that names a different pid after the call means the answer was
\* reader and the table is untouched; but reader is also the answer when the
\* row carries the caller's own pid, was there before the call and has a
\* fresh heartbeat, so a row with the caller's pid does not imply owner.
C37_OwnerHoldsRowReaderMayToo ==
    AcquireReturned =>
      /\ last.result = "owner" => rows = {CallerRow}
      /\ (\E r \in rows : r.pid # CallerPid) => (last.result = "reader" /\ rows = last.pre)
      /\ (last.result = "reader" /\ \E r \in rows : r.pid = CallerPid)
         => /\ rows = last.pre
            /\ \A o \in last.pre :
                 o.pid = CallerPid /\ o.heartbeat_at.valid /\ AgeBelow(o, last.stale)

\* The owner asks again while its own row is fresh and is answered reader.
C37_Witness ==
    /\ AcquireReturned /\ last.was = "owner" /\ last.result = "reader"
    /\ \E r \in rows : r.pid = CallerPid /\ r.instance_id = CallerInstance

(***************************************************************************)
(* Dependency graph.                                                       *)
(***************************************************************************)

\* The files of the graph, in path order.
Files == <<"a.ts", "b.ts", "c.ts">>

Nodes == {Files[i] : i \in DOMAIN Files}

\* Position of a file in path order.
order(n) == CHOOSE i \in DOMAIN Files : Files[i] = n

AllEdges == Nodes \X Nodes

\* The relation sets of at most MaxEdges rows.
RelationSets == {E \in SUBSET AllEdges : Cardinality(E) <= MaxEdges}

EmptyMap == [n \in Nodes |-> {}]

\* The edges a forward map holds.
edgesOf(fwd) == {e \in AllEdges : e[2] \in fwd[e[1]]}

\* The edges a reverse map holds, written src -> dst.
edgesOfReverse(rev) == {e \in AllEdges : e[1] \in rev[e[2]]}

\* build(): one pass over the relation rows, adding dst to forward[src] and
\* src to reverse[dst].
RECURSIVE addEdges(_, _)
addEdges(maps, E) ==
    IF E = {} THEN maps
    ELSE LET e == CHOOSE x \in E : TRUE
             f == [maps.forward EXCEPT ![e[1]] = @ \cup {e[2]}]
             r == [maps.reverse EXCEPT ![e[2]] = @ \cup {e[1]}]
         IN addEdges([forward |-> f, reverse |-> r], E \ {e})

build(E) == addEdges([forward |-> EmptyMap, reverse |-> EmptyMap], E)

\* A removal that clears the forward entry and forgets the reverse map.
removeFile_forwardOnly(maps, file) ==
    [forward |-> [maps.forward EXCEPT ![file] = {}],
     reverse |-> maps.reverse]

\* Removal of one file: its outgoing edges leave the forward map and it
\* leaves every reverse entry.
removeFile(maps, file) ==
    [forward |-> [maps.forward EXCEPT ![file] = {}],
     reverse |-> [n \in Nodes |-> maps.reverse[n] \ {file}]]

RECURSIVE removeFiles(_, _)
removeFiles(maps, files) ==
    IF files = {} THEN maps
    ELSE LET f == CHOOSE x \in files : TRUE
         IN removeFiles(removeFile(maps, f), files \ {f})

\* A patch that forgets the deleted files.
patchFiles_changedOnly(maps, changed, deleted, relationsFor) ==
    addEdges(removeFiles(maps, changed),
             UNION {{<<f, d>> : d \in relationsFor[f]} : f \in changed})

\* patchFiles(changed, deleted, relationsFor): every file of changed and
\* deleted is removed, then the relations of each changed file are inserted.
patchFiles(maps, changed, deleted, relationsFor) ==
    addEdges(removeFiles(maps, changed \cup deleted),
             UNION {{<<f, d>> : d \in relationsFor[f]} : f \in changed})

\* The relation set a patch corresponds to: the old relations of the changed
\* and deleted files removed, relationsFor(f) added for each changed f.
patchedRelations(E, changed, deleted, relationsFor) ==
    {e \in E : e[1] \notin changed \cup deleted}
        \cup UNION {{<<f, d>> : d \in relationsFor[f]} : f \in changed}

\* Files reachable from n over one or more edges.
RECURSIVE reachFrom(_, _, _)
reachFrom(fwd, frontier, seen) ==
    LET next == UNION {fwd[m] : m \in frontier}
    IN IF next \subseteq seen THEN seen
       ELSE reachFrom(fwd, next \ seen, seen \cup next)

reachable(fwd, n) == reachFrom(fwd, {n}, {})

\* Strongly connected components, as Tarjan's algorithm yields them: the
\* classes of mutual reachability.
sccOf(fwd, n) == {n} \cup {m \in Nodes : m \in reachable(fwd, n) /\ n \in reachable(fwd, m)}

components(fwd) == {sccOf(fwd, n) : n \in Nodes}

hasSelfLoop(fwd) == \E n \in Nodes : n \in fwd[n]

\* hasCycle() looking at the component sizes only.
hasCycle_sizesOnly(fwd) == \E c \in components(fwd) : Cardinality(c) > 1

\* hasCycle(): a component of more than one file, or a self-loop.
hasCycle(fwd) ==
    \/ \E c \in components(fwd) : Cardinality(c) > 1
    \/ hasSelfLoop(fwd)

\* Sequences of distinct files of c.
simplePaths(c) ==
    {p \in UNION {[1..k -> c] : k \in 1..Cardinality(c)} :
        \A i, j \in DOMAIN p : i # j => p[i] # p[j]}

\* The elementary circuits of component c, each written from its least file
\* (Johnson's algorithm roots every circuit at its least vertex).
circuits(fwd, c) ==
    {p \in simplePaths(c) :
        /\ \A i \in DOMAIN p : order(p[1]) <= order(p[i])
        /\ \A i \in 1..(Len(p) - 1) : p[i + 1] \in fwd[p[i]]
        /\ p[1] \in fwd[p[Len(p)]]}

\* A component is non-trivial when it holds a cycle: more than one file, or
\* one file with an edge to itself.
nonTrivial(fwd, c) == Cardinality(c) > 1 \/ \E n \in c : n \in fwd[n]

\* Circuits of the components of more than one file only.
getCyclePaths_noSelfLoops(fwd) ==
    UNION {circuits(fwd, c) : c \in {d \in components(fwd) : Cardinality(d) > 1}}

\* getCyclePaths(): Johnson's circuits over each non-trivial component.
getCyclePaths(fwd) ==
    UNION {circuits(fwd, c) : c \in {d \in components(fwd) : nonTrivial(fwd, d)}}

OwnerIdle ==
    /\ rows = {}
    /\ clock = StartMs
    /\ running = {}
    /\ role = [p \in Procs |-> "none"]
    /\ released = FALSE
    /\ wonFromDead = FALSE
    /\ last = NoCall

GraphInit ==
    /\ OwnerIdle
    /\ IndexIdle
    /\ ApiIdle
    /\ SemanticIdle
    /\ graphRepo \in RelationSets
    /\ forward = <<>>
    /\ reverse = <<>>
    /\ graphState = "new"
    /\ lastPatch = [changed |-> FALSE, deleted |-> FALSE]

\* new DependencyGraph(...).build()
Build ==
    /\ graphState = "new"
    /\ LET maps == build(graphRepo)
       IN /\ forward' = maps.forward
          /\ reverse' = maps.reverse
    /\ graphState' = "built"
    /\ UNCHANGED <<graphRepo, lastPatch>>
    /\ UNCHANGED <<ownerVars, indexVars, apiVars, semanticVars>>

\* graph.patchFiles(changed, deleted, relationsFor); the repository then
\* holds the relation set the patch corresponds to.
PatchFiles(changed, deleted, relationsFor) ==
    /\ graphState # "new"
    /\ Cardinality(patchedRelations(graphRepo, changed, deleted, relationsFor)) <= MaxEdges
    /\ LET maps == patchFiles([forward |-> forward, reverse |-> reverse],
                              changed, deleted, relationsFor)
       IN /\ forward' = maps.forward
          /\ reverse' = maps.reverse
    /\ graphRepo' = patchedRelations(graphRepo, changed, deleted, relationsFor)
    /\ graphState' = "patched"
    /\ lastPatch' = [changed |-> changed # {}, deleted |-> deleted # {}]
    /\ UNCHANGED <<ownerVars, indexVars, apiVars, semanticVars>>

GraphNext ==
    \/ Build
    \/ \E changed \in SUBSET Nodes :
         \E deleted \in {d \in SUBSET Nodes : Cardinality(changed) + Cardinality(d) <= MaxPatch} :
            \E relationsFor \in [changed -> SUBSET Nodes] :
               PatchFiles(changed, deleted, relationsFor)

GraphSpec == GraphInit /\ [][GraphNext]_vars

\* C16: for every graph, self-loops included, hasCycle() is true exactly
\* when getCyclePaths() returns at least one cycle.
C16_HasCycleIffCyclePaths ==
    graphState # "new" => (hasCycle(forward) <=> getCyclePaths(forward) # {})

\* A built graph whose only cycle is a self-loop, and it is reported.
C16_Witness ==
    /\ graphState = "built"
    /\ hasSelfLoop(forward)
    /\ \A c \in components(forward) : Cardinality(c) = 1
    /\ hasCycle(forward)
    /\ getCyclePaths(forward) # {}

\* C17: after patchFiles the forward map holds exactly the edges a fresh
\* build() yields from the relation set the patch corresponds to.
C17_PatchEqualsBuild ==
    graphState = "patched" =>
        edgesOf(forward) = edgesOf(build(graphRepo).forward)

\* A patch that named changed and deleted files and left edges behind.
C17_Witness ==
    /\ graphState = "patched"
    /\ lastPatch.changed
    /\ lastPatch.deleted
    /\ edgesOf(forward) # {}
    /\ edgesOf(forward) = edgesOf(build(graphRepo).forward)

\* getTransitiveDependencies(f) answering f itself when f lies on a cycle.
getTransitiveDependencies_withSelf(fwd, f) == reachable(fwd, f)

\* getTransitiveDependencies(f): forward DFS from f, excluding f.
getTransitiveDependencies(fwd, f) == reachable(fwd, f) \ {f}

\* getTransitiveDependents(f): reverse DFS from f, excluding f.
getTransitiveDependents(rev, f) == reachable(rev, f) \ {f}

\* getAffectedByChange(changed) without the changed files themselves.
getAffectedByChange_dependentsOnly(rev, changed) ==
    UNION {getTransitiveDependents(rev, x) : x \in changed}

\* getAffectedByChange(changed): one reverse traversal started from all the
\* changed files, which count as visited from the start.
getAffectedByChange(rev, changed) == reachFrom(rev, changed, changed)

onCycle(fwd, n) == n \in reachable(fwd, n)

\* C26: hasCycle() is true exactly when some component has more than one
\* file or some file has an edge to itself: a self-loop makes it true
\* whatever the other edges, a graph where no file is reached again from
\* itself makes it false.
C26_HasCycleIffComponentOrSelfLoop ==
    graphState # "new" =>
        /\ hasCycle(forward) <=>
              \/ \E n, m \in Nodes : n # m /\ m \in reachable(forward, n) /\ n \in reachable(forward, m)
              \/ \E e \in edgesOf(forward) : e[1] = e[2]
        /\ (\E n \in Nodes : <<n, n>> \in graphRepo) => hasCycle(forward)
        /\ (\A n \in Nodes : ~onCycle(forward, n)) => ~hasCycle(forward)

\* A self-loop next to an import chain and no larger component: a cycle.
C26_Witness ==
    /\ graphState # "new"
    /\ \E n, a, b \in Nodes : /\ <<n, n>> \in graphRepo
                              /\ a # b /\ <<a, b>> \in graphRepo
    /\ \A c \in components(forward) : Cardinality(c) = 1
    /\ hasCycle(forward)

\* C27 as stated: transitiveDependencies(f) is the set of files reached from
\* f over one or more forward edges, f is never in it, and the end of a
\* chain f -> B -> C is in it.
C27_DependenciesAreReachable ==
    graphState # "new" =>
        \A f \in Nodes :
            /\ getTransitiveDependencies(forward, f) = reachable(forward, f)
            /\ f \notin getTransitiveDependencies(forward, f)

\* C27 amended: transitiveDependencies(f) is the set of files other than f
\* reached from f over one or more forward edges; the end C # f of a chain
\* f -> B -> C is in it whatever other edges exist.
C27_DependenciesExcludeSelf ==
    graphState # "new" =>
        \A f \in Nodes :
            /\ getTransitiveDependencies(forward, f) = {n \in Nodes \ {f} : n \in reachable(forward, f)}
            /\ f \notin getTransitiveDependencies(forward, f)
            /\ \A B, C \in Nodes :
                   (B \in forward[f] /\ C \in forward[B] /\ C # f)
                       => C \in getTransitiveDependencies(forward, f)

\* A file on a cycle through all three files: it is reached from itself, and
\* its transitive dependencies are the two others.
C27_Witness ==
    /\ graphState # "new"
    /\ \E f \in Nodes :
          /\ onCycle(forward, f)
          /\ f \notin forward[f]
          /\ getTransitiveDependencies(forward, f) = Nodes \ {f}
          /\ \E B, C \in Nodes \ {f} : B # C /\ B \in forward[f] /\ C \in forward[B]

\* C39: after build() and after every patchFiles call the reverse map is the
\* exact transpose of the forward map: d is in dependencies(f) if and only if
\* f is in dependents(d).
C39_ReverseIsTranspose ==
    graphState # "new" =>
        \A f \in Nodes, d \in Nodes : d \in forward[f] <=> f \in reverse[d]

\* A patch has removed a file that had both outgoing and incoming edges, and
\* the graph still has edges.
C39_Witness ==
    /\ graphState = "patched"
    /\ lastPatch.deleted
    /\ \E f \in Nodes : forward[f] = {} /\ reverse[f] # {}
    /\ \E f \in Nodes, d \in Nodes : d \in forward[f] /\ f \in reverse[d]


(***************************************************************************)
(* Index coordinator, indexers and repositories.                           *)
(***************************************************************************)

\* The texts a source file can hold.
Texts == {"plain", "linked", "broken"}

\* Import specifiers: relative to the importing file's directory ("rel"),
\* relative to its parent ("up"), or a package name ("bare").
ImportStore == [kind |-> "rel", stem |-> "store"]
ImportA == [kind |-> "rel", stem |-> "a"]
ImportUpA == [kind |-> "up", stem |-> "a"]
ImportLib == [kind |-> "bare", stem |-> "lib"]

hashString(text) == "sha:" \o text

\* parseFn (the parser handed to the coordinator): an error for text the
\* parser rejects, else the program with
\* its import declarations in source order.
parseFn(text) ==
    IF text = "broken" THEN [ok |-> FALSE, imports |-> <<>>]
    ELSE IF text = "linked"
         THEN [ok |-> TRUE, imports |-> <<ImportStore, ImportA, ImportUpA, ImportLib>>]
         ELSE [ok |-> TRUE, imports |-> <<>>]

projectRoot == <<"repo">>

toAbsolutePath(root, rel) == root \o rel

isUnder(root, abs) == Len(abs) >= Len(root) /\ SubSeq(abs, 1, Len(root)) = root

\* A path outside the root comes back starting with "..".
toRelativePath(root, abs) ==
    IF isUnder(root, abs) THEN SubSeq(abs, Len(root) + 1, Len(abs))
    ELSE <<"..">> \o abs

dirname(abs) == SubSeq(abs, 1, Len(abs) - 1)

\* resolveImport: the candidates of an extensionless relative specifier, in
\* order: <p>.ts before <p>/index.ts. A bare specifier gives none.
resolveImport(currentFile, spec) ==
    IF spec.kind = "bare" THEN <<>>
    ELSE LET dir == dirname(currentFile)
             base == IF spec.kind = "up" THEN dirname(dir) ELSE dir
         IN <<base \o <<spec.stem \o ".ts">>, base \o <<spec.stem, "index.ts">>>>

\* resolveBareSpecifier: node_modules candidates of a package name.
resolveBareSpecifier(root, spec) ==
    IF spec.kind # "bare" THEN <<>>
    ELSE <<root \o <<"node_modules", spec.stem, "index.d.ts">>,
           root \o <<"node_modules", spec.stem, "index.ts">>>>

\* The project boundaries of the tree: store/ is a package of its own.
boundaries ==
    <<[dir |-> <<"store">>, project |-> "store-pkg"],
      [dir |-> <<>>, project |-> "root"]>>

Projects == {boundaries[i].project : i \in DOMAIN boundaries}

\* resolveFileProject: the project of the first boundary holding the path.
resolveFileProject(rel, bs) ==
    LET hits == {i \in DOMAIN bs : isUnder(bs[i].dir, rel)}
    IN bs[CHOOSE i \in hits : \A j \in hits : i <= j].project

\* The knownFiles key of a file: "<project>::<path>".
fileKey(project, rel) == <<project, rel>>

\* ---- repositories

upsertFile(files, record) ==
    {r \in files : ~(r.project = record.project /\ r.filePath = record.filePath)}
        \cup {record}

getFilesMap(files, project) == {r.filePath : r \in {x \in files : x.project = project}}

\* deleteFile, with the cascade of the foreign keys of symbols and relations.
deleteFile(store, project, filePath) ==
    [files |-> {r \in store.files : ~(r.project = project /\ r.filePath = filePath)},
     symbols |-> {r \in store.symbols : ~(r.project = project /\ r.filePath = filePath)},
     relations |-> {r \in store.relations :
                      /\ ~(r.project = project /\ r.srcFilePath = filePath)
                      /\ ~(r.dstProject = project /\ r.dstFilePath = filePath)}]

\* replaceFileSymbols rewriting the rows whatever hash they carry.
replaceFileSymbols_always(symbols, project, filePath, contentHash, now) ==
    {r \in symbols : ~(r.project = project /\ r.filePath = filePath)}
        \cup {[project |-> project, filePath |-> filePath, contentHash |-> contentHash,
                updatedAt |-> now]}

\* replaceFileSymbols: nothing is done when the file's rows already carry
\* the incoming hash; otherwise they are replaced by rows written at `now`.
replaceFileSymbols(symbols, project, filePath, contentHash, now) ==
    IF \E r \in symbols : r.project = project /\ r.filePath = filePath
                            /\ r.contentHash = contentHash
    THEN symbols
    ELSE {r \in symbols : ~(r.project = project /\ r.filePath = filePath)}
            \cup {[project |-> project, filePath |-> filePath, contentHash |-> contentHash,
                    updatedAt |-> now]}

\* replaceFileRelations: delete the rows of the source file, insert the new.
replaceFileRelations(relations, project, srcFilePath, rels) ==
    {r \in relations : ~(r.project = project /\ r.srcFilePath = srcFilePath)}
        \cup {[project |-> project, srcFilePath |-> rel.srcFilePath,
               dstProject |-> rel.dstProject, dstFilePath |-> rel.dstFilePath]
              : rel \in rels}

\* A connection that commits what a throwing body has written.
transaction_noRollback(txDepth, db, fn) == fn

\* db.transaction(fn): the outermost call rolls back what a throwing fn has
\* written and passes the error on; a call made inside a transaction
\* (txDepth > 0) only runs fn, with no savepoint of its own.
transaction(txDepth, db, fn) ==
    IF txDepth > 0 THEN fn
    ELSE IF fn.threw THEN [threw |-> TRUE, db |-> db]
    ELSE fn

\* replaceFileRelations with an insert that may throw: the body has deleted
\* the file's rows and inserted the rows of done when the insert of the next
\* row throws (done = rels: no insert throws).
replaceFileRelationsTx(txDepth, relations, project, srcFilePath, rels, done) ==
    transaction(txDepth, relations,
                [threw |-> done # rels,
                 db |-> replaceFileRelations(relations, project, srcFilePath, done)])

\* ---- relation indexer

RECURSIVE firstKnown(_, _)
firstKnown(candidates, knownFiles) ==
    IF candidates = <<>> THEN <<>>
    ELSE LET c == Head(candidates)
             rel == toRelativePath(projectRoot, c)
             p == resolveFileProject(rel, boundaries)
         IN IF fileKey(p, rel) \in knownFiles THEN <<c>>
            ELSE firstKnown(Tail(candidates), knownFiles)

\* A resolver that takes the first candidate without asking knownFiles.
customResolver_unfiltered(currentFile, spec, knownFiles) ==
    LET plain == resolveImport(currentFile, spec)
        candidates == IF plain = <<>> THEN resolveBareSpecifier(projectRoot, spec) ELSE plain
    IN IF candidates = <<>> THEN <<>> ELSE <<Head(candidates)>>

\* customResolver: the first candidate that is in knownFiles, else none.
customResolver(currentFile, spec, knownFiles) ==
    LET plain == resolveImport(currentFile, spec)
        candidates == IF plain = <<>> THEN resolveBareSpecifier(projectRoot, spec) ELSE plain
    IN firstKnown(candidates, knownFiles)

\* extractRelations: one raw relation per import whose resolver answer is
\* not empty, to the first path of the answer.
extractRelations(imports, absFilePath, knownFiles) ==
    {[srcFilePath |-> absFilePath,
      dstFilePath |-> customResolver(absFilePath, imports[i], knownFiles)[1]]
     : i \in {j \in DOMAIN imports :
                customResolver(absFilePath, imports[j], knownFiles) # <<>>}}

\* The rows indexFileRelations hands to replaceFileRelations: the raw
\* relations whose destination lies under the root.
relRowsOf(imports, filePath, knownFiles) ==
    LET absFilePath == toAbsolutePath(projectRoot, filePath)
        rawRelations == extractRelations(imports, absFilePath, knownFiles)
        inside == {rel \in rawRelations : toRelativePath(projectRoot, rel.dstFilePath)[1] # ".."}
    IN {[srcFilePath |-> toRelativePath(projectRoot, rel.srcFilePath),
         dstProject |-> resolveFileProject(toRelativePath(projectRoot, rel.dstFilePath), boundaries),
         dstFilePath |-> toRelativePath(projectRoot, rel.dstFilePath)]
        : rel \in inside}

\* indexFileRelations: rows of the raw relations whose destination lies
\* under the root, written with replaceFileRelations.
indexFileRelations(relations, imports, project, filePath, knownFiles) ==
    replaceFileRelations(relations, project, filePath, relRowsOf(imports, filePath, knownFiles))

\* knownFiles: the keys of the current file rows of every project.
buildKnownFiles(files) ==
    UNION {{fileKey(boundaries[i].project, fp) : fp \in getFilesMap(files, boundaries[i].project)}
           : i \in DOMAIN boundaries}


\* ---- index coordinator

Store == [files |-> fileRows, symbols |-> symbolRows, relations |-> relationRows]

FileRecord(project, filePath, contentHash) ==
    [project |-> project, filePath |-> filePath, contentHash |-> contentHash]

hasFileRow(project, filePath) ==
    \E f \in fileRows : f.project = project /\ f.filePath = filePath

\* The source trees indexing starts on: a.ts and store.ts present or not,
\* a.ts with or without imports; store/index.ts is created later, if at all.
InitialDisks ==
    {d \in [Paths -> {"plain", "linked", Absent}] :
        /\ d[<<"store.ts">>] # "linked"
        /\ d[<<"store", "index.ts">>] = Absent}

IndexInit ==
    /\ OwnerIdle
    /\ GraphIdle
    /\ ApiIdle
    /\ SemanticIdle
    /\ disk \in InitialDisks
    /\ edits = 0
    /\ fileRows = {}
    /\ symbolRows = {}
    /\ relationRows = {}
    /\ pending = [changed |-> {}, deleted |-> {}]
    /\ run = NoRun

Quiet == run.phase \in {"idle", "done", "failed"}

\* A source file is written; the watcher reports a change.
WriteFile(f, text) ==
    /\ edits < MaxEdits
    /\ disk[f] # text
    /\ disk' = [disk EXCEPT ![f] = text]
    /\ edits' = edits + 1
    /\ pending' = [changed |-> pending.changed \cup {f}, deleted |-> pending.deleted \ {f}]
    /\ UNCHANGED <<storeVars, run>>
    /\ UNCHANGED <<ownerVars, graphVars, apiVars, semanticVars>>

\* A source file is removed; the watcher reports a delete.
RemoveFile(f) ==
    /\ edits < MaxEdits
    /\ disk[f] # Absent
    /\ disk' = [disk EXCEPT ![f] = Absent]
    /\ edits' = edits + 1
    /\ pending' = [changed |-> pending.changed \ {f}, deleted |-> pending.deleted \cup {f}]
    /\ UNCHANGED <<storeVars, run>>
    /\ UNCHANGED <<ownerVars, graphVars, apiVars, semanticVars>>

\* The symbol rows / the outgoing relation rows of a file.
symbolsOf(symbols, filePath) == {r \in symbols : r.filePath = filePath}
relationsOf(relations, filePath) == {r \in relations : r.srcFilePath = filePath}

\* A source file is saved again with the content it has; the watcher reports
\* a change. The event is only looked at when the next batch starts, so the
\* saves that fall into a running batch are taken after it.
TouchFile(f) ==
    /\ edits < MaxEdits
    /\ Quiet
    /\ disk[f] # Absent
    /\ f \notin pending.changed
    /\ edits' = edits + 1
    /\ pending' = [changed |-> pending.changed \cup {f}, deleted |-> pending.deleted \ {f}]
    /\ UNCHANGED <<disk, storeVars, run>>
    /\ UNCHANGED <<ownerVars, graphVars, apiVars, semanticVars>>

\* Pass 2 of one prepared file: symbols, then relations.
indexPrepared(store, fd, knownFiles, now) ==
    [files |-> store.files,
     symbols |-> replaceFileSymbols(store.symbols, fd.project, fd.filePath, fd.contentHash,
                                    now),
     relations |-> indexFileRelations(store.relations, fd.imports, fd.project,
                                      fd.filePath, knownFiles)]

RECURSIVE indexAll(_, _, _, _)
indexAll(store, fds, knownFiles, now) ==
    IF fds = {} THEN store
    ELSE LET fd == CHOOSE x \in fds : TRUE
         IN indexAll(indexPrepared(store, fd, knownFiles, now), fds \ {fd}, knownFiles, now)

RECURSIVE deleteFiles(_, _)
deleteFiles(store, files) ==
    IF files = {} THEN store
    ELSE LET f == CHOOSE x \in files : TRUE
         IN deleteFiles(deleteFile(store, resolveFileProject(f, boundaries), f), files \ {f})

RECURSIVE upsertAll(_, _)
upsertAll(files, records) ==
    IF records = {} THEN files
    ELSE LET r == CHOOSE x \in records : TRUE
         IN upsertAll(upsertFile(files, r), records \ {r})

\* ---- graph cache of the owner coordinator

\* The key of the graph over every project.
CrossKey == "__cross__"

\* new DependencyGraph({ relationRepo, project }).build(): the adjacency of
\* the relation rows of the project, or of every project for the cross key.
buildGraph(relations, key) ==
    {<<r.srcFilePath, r.dstFilePath>>
       : r \in {x \in relations : key = CrossKey \/ x.project = key}}

\* getOrBuildGraph(ctx, project): the cached graph when one is cached under
\* the key asked for, else a graph built from the relation rows and cached.
getOrBuildGraph(cache, relations, key) ==
    IF cache.graph # {} /\ cache.key = key
    THEN [graph |-> cache.graph, key |-> key, fromCache |-> TRUE]
    ELSE [graph |-> {buildGraph(relations, key)}, key |-> key, fromCache |-> FALSE]

\* A subscriber that leaves the cached graph in place.
onIndexed_keepsGraph(graph) == graph

\* The owner's subscriber to the indexed event: the cached graph is dropped.
onIndexed(graph) == {}

\* The bookkeeping of a commit: a cached graph is outdated once a committed
\* run has changed the relation rows.
afterCommit(cache, changed) ==
    [cache EXCEPT !.outdated = cache.graph # {} /\ (@ \/ changed)]

\* The bookkeeping of the indexed event around onIndexed.
afterIndexed(cache) ==
    LET graph == onIndexed(cache.graph)
    IN [cache EXCEPT !.graph = graph,
                     !.outdated = graph # {} /\ @,
                     !.droppedOutdated = graph = {} /\ (@ \/ (cache.graph # {} /\ cache.outdated))]

\* fullIndex(): both passes inside one transaction, so the action is the
\* committed run.
FullIndex ==
    /\ Quiet
    /\ LET present == {f \in Paths : disk[f] # Absent}
           records == {FileRecord(resolveFileProject(f, boundaries), f, hashString(disk[f]))
                       : f \in present}
           stale == {f \in present :
                       FileRecord(resolveFileProject(f, boundaries), f, hashString(disk[f]))
                           \notin fileRows}
           gone == {r.filePath : r \in fileRows} \ present
           pass1 == deleteFiles([Store EXCEPT !.files = upsertAll(fileRows, records)], gone)
           knownFiles == buildKnownFiles(pass1.files)
           fds == {[filePath |-> f, contentHash |-> hashString(disk[f]),
                    imports |-> parseFn(disk[f]).imports,
                    project |-> resolveFileProject(f, boundaries)]
                   : f \in {g \in stale : parseFn(disk[g]).ok}}
           pass2 == indexAll(pass1, fds, knownFiles, edits)
       IN /\ fileRows' = pass2.files
          /\ symbolRows' = pass2.symbols
          /\ relationRows' = pass2.relations
          /\ run' = [NoRun EXCEPT !.phase = "committed", !.kind = "full",
                                  !.failedFiles = {f \in stale : ~parseFn(disk[f]).ok},
                                  !.indexed = {[filePath |-> fd.filePath, imports |-> fd.imports,
                                                isNew |-> ~hasFileRow(fd.project, fd.filePath),
                                                sameHash |-> FALSE, storedHash |-> FALSE,
                                                symbolsKept |-> FALSE,
                                                relationsAdded |-> FALSE]
                                               : fd \in fds}]
          /\ graphCache' = afterCommit(graphCache, pass2.relations # relationRows)
    /\ pending' = [changed |-> {}, deleted |-> {}]
    /\ UNCHANGED <<disk, edits>>
    /\ UNCHANGED <<closed, parseCache, call>>
    /\ UNCHANGED <<ownerVars, graphVars, semanticVars>>

\* The watcher hands its events to an incremental batch.
StartIncremental ==
    /\ run.phase \in {"done", "failed"}
    /\ pending.changed \cup pending.deleted # {}
    /\ run' = [NoRun EXCEPT !.phase = "pass1", !.kind = "incremental",
                            !.todo = pending.changed, !.deleted = pending.deleted,
                            !.before = Store]
    /\ pending' = [changed |-> {}, deleted |-> {}]
    /\ UNCHANGED <<disk, edits, storeVars>>
    /\ UNCHANGED <<ownerVars, graphVars, apiVars, semanticVars>>

\* processChanged, Pass 1, one changed file: read, upsertFile, parse.
Pass1(f) ==
    /\ run.phase = "pass1"
    /\ f \in run.todo
    /\ LET text == disk[f]
           contentHash == hashString(text)
           project == resolveFileProject(f, boundaries)
           parseResult == parseFn(text)
       IN IF text = Absent
          THEN /\ run' = [run EXCEPT !.todo = @ \ {f}, !.failedFiles = @ \cup {f}]
               /\ UNCHANGED fileRows
          ELSE /\ fileRows' = upsertFile(fileRows, FileRecord(project, f, contentHash))
               /\ IF ~parseResult.ok
                  THEN run' = [run EXCEPT !.todo = @ \ {f}, !.failedFiles = @ \cup {f},
                                          !.wrote = TRUE]
                  ELSE run' = [run EXCEPT !.todo = @ \ {f}, !.wrote = TRUE,
                                          !.prepared = Append(@,
                                              [filePath |-> f, contentHash |-> contentHash,
                                               imports |-> parseResult.imports,
                                               project |-> project])]
    /\ UNCHANGED <<disk, edits, symbolRows, relationRows, pending>>
    /\ UNCHANGED <<ownerVars, graphVars, apiVars, semanticVars>>

\* knownFiles taken from the file rows the batch started with.
KnownFiles_beforePass1 ==
    /\ run.phase = "pass1"
    /\ run.todo = {}
    /\ run' = [run EXCEPT !.phase = "pass2",
                          !.knownFiles = buildKnownFiles(run.before.files)]
    /\ UNCHANGED <<disk, edits, storeVars, pending>>
    /\ UNCHANGED <<ownerVars, graphVars, apiVars, semanticVars>>

\* processChanged: knownFiles is built once, after Pass 1.
KnownFiles ==
    /\ run.phase = "pass1"
    /\ run.todo = {}
    /\ run' = [run EXCEPT !.phase = "pass2", !.knownFiles = buildKnownFiles(fileRows)]
    /\ UNCHANGED <<disk, edits, storeVars, pending>>
    /\ UNCHANGED <<ownerVars, graphVars, apiVars, semanticVars>>

\* processChanged, Pass 2, the next prepared file.
Pass2 ==
    /\ run.phase = "pass2"
    /\ run.prepared # <<>>
    /\ LET fd == Head(run.prepared)
           after == indexPrepared(Store, fd, run.knownFiles, edits)
           added == relationsOf(after.relations, fd.filePath)
                        \ relationsOf(run.before.relations, fd.filePath)
       IN /\ symbolRows' = after.symbols
          /\ relationRows' = after.relations
          /\ run' = [run EXCEPT
                !.prepared = Tail(@), !.wrote = TRUE,
                !.indexed = @ \cup
                    {[filePath |-> fd.filePath,
                      imports |-> fd.imports,
                      isNew |-> ~\E f \in run.before.files : f.filePath = fd.filePath,
                      sameHash |-> \E f \in run.before.files :
                                      f.filePath = fd.filePath /\ f.contentHash = fd.contentHash,
                      storedHash |-> \E r \in symbolsOf(symbolRows, fd.filePath) :
                                        r.contentHash = fd.contentHash,
                      symbolsKept |-> symbolsOf(after.symbols, fd.filePath)
                                          = symbolsOf(run.before.symbols, fd.filePath),
                      relationsAdded |-> added # {}]}]
    /\ UNCHANGED <<disk, edits, fileRows, pending>>
    /\ UNCHANGED <<ownerVars, graphVars, apiVars, semanticVars>>

\* Pass 2 of the next prepared file with a relation insert that throws after
\* the rows of done: the symbols are written, replaceFileRelations' own
\* transaction (the outermost here) undoes its deletes and inserts, and the
\* error ends processChanged.
Pass2InsertFails ==
    /\ run.phase = "pass2"
    /\ run.prepared # <<>>
    /\ \E done \in SUBSET relRowsOf(Head(run.prepared).imports, Head(run.prepared).filePath,
                                    run.knownFiles) :
       LET fd == Head(run.prepared)
           rels == relRowsOf(fd.imports, fd.filePath, run.knownFiles)
           res == replaceFileRelationsTx(0, relationRows, fd.project, fd.filePath, rels, done)
       IN /\ res.threw
          /\ symbolRows' = replaceFileSymbols(symbolRows, fd.project, fd.filePath,
                                              fd.contentHash, edits)
          /\ relationRows' = res.db
          /\ run' = [NoRun EXCEPT !.phase = "failed", !.kind = "incremental",
                                  !.wrote = TRUE, !.notified = run.notified,
                                  !.asBefore = ([Store EXCEPT !.symbols = symbolRows',
                                                              !.relations = res.db]
                                                  = run.before),
                                  !.insertFailed = fd.filePath,
                                  !.relationsKept = (relationsOf(res.db, fd.filePath)
                                                       = relationsOf(relationRows, fd.filePath))]
    /\ UNCHANGED <<disk, edits, fileRows, pending>>
    /\ UNCHANGED <<ownerVars, graphVars, apiVars, semanticVars>>

\* fullIndex() with a relation insert that throws after the rows of done,
\* once the files of earlier have been indexed: replaceFileRelations'
\* transaction is nested and only runs its body; the error leaves fullIndex's
\* transaction, which undoes the run.
FullIndexInsertFails(f) ==
    /\ Quiet
    /\ LET present == {g \in Paths : disk[g] # Absent}
           records == {FileRecord(resolveFileProject(g, boundaries), g, hashString(disk[g]))
                       : g \in present}
           stale == {g \in present :
                       FileRecord(resolveFileProject(g, boundaries), g, hashString(disk[g]))
                           \notin fileRows}
           gone == {r.filePath : r \in fileRows} \ present
           pass1 == deleteFiles([Store EXCEPT !.files = upsertAll(fileRows, records)], gone)
           knownFiles == buildKnownFiles(pass1.files)
           fds == {[filePath |-> g, contentHash |-> hashString(disk[g]),
                    imports |-> parseFn(disk[g]).imports,
                    project |-> resolveFileProject(g, boundaries)]
                   : g \in {h \in stale : parseFn(disk[h]).ok}}
       IN /\ \E fd \in fds :
               /\ fd.filePath = f
               /\ \E earlier \in SUBSET (fds \ {fd}),
                     done \in SUBSET relRowsOf(fd.imports, fd.filePath, knownFiles) :
                  LET sofar == indexAll(pass1, earlier, knownFiles, edits)
                      rels == relRowsOf(fd.imports, fd.filePath, knownFiles)
                      inner == replaceFileRelationsTx(1, sofar.relations, fd.project,
                                                      fd.filePath, rels, done)
                      outer == transaction(0, Store,
                                  [threw |-> inner.threw,
                                   db |-> [files |-> sofar.files,
                                           symbols |-> replaceFileSymbols(sofar.symbols,
                                                          fd.project, fd.filePath,
                                                          fd.contentHash, edits),
                                           relations |-> inner.db]])
                  IN /\ outer.threw
                     /\ fileRows' = outer.db.files
                     /\ symbolRows' = outer.db.symbols
                     /\ relationRows' = outer.db.relations
                     /\ run' = [NoRun EXCEPT !.phase = "failed", !.kind = "full",
                                  !.asBefore = (outer.db = Store),
                                  !.insertFailed = f,
                                  !.relationsKept = (relationsOf(outer.db.relations, f)
                                                       = relationsOf(relationRows, f))]
    /\ UNCHANGED <<disk, edits, pending>>
    /\ UNCHANGED <<ownerVars, graphVars, apiVars, semanticVars>>

\* The deleted files' rows are removed and the batch ends.
Deletes ==
    /\ run.phase = "pass2"
    /\ run.prepared = <<>>
    /\ LET after == deleteFiles(Store, run.deleted)
       IN /\ fileRows' = after.files
          /\ symbolRows' = after.symbols
          /\ relationRows' = after.relations
          /\ graphCache' = afterCommit(graphCache, after.relations # run.before.relations)
    /\ run' = [NoRun EXCEPT !.phase = "committed", !.kind = "incremental",
                            !.failedFiles = run.failedFiles, !.indexed = run.indexed]
    /\ UNCHANGED <<disk, edits, pending>>
    /\ UNCHANGED <<closed, parseCache, call>>
    /\ UNCHANGED <<ownerVars, graphVars, semanticVars>>

\* A failure interrupts the batch (the process dies, the store throws). No
\* transaction is open around processChanged, so what was written stays;
\* asBefore records whether the store is as it was when the batch began.
Fail ==
    /\ run.phase \in {"pass1", "pass2"}
    /\ run' = [NoRun EXCEPT !.phase = "failed", !.kind = "incremental",
                            !.wrote = run.wrote, !.asBefore = (Store = run.before),
                            !.notified = run.notified]
    /\ UNCHANGED <<disk, edits, storeVars, pending>>
    /\ UNCHANGED <<ownerVars, graphVars, apiVars, semanticVars>>

\* The indexed event fired while the run is still writing.
EmitIndexed_beforeCommit ==
    /\ run.phase \in {"pass2", "committed"}
    /\ run' = [run EXCEPT !.phase = IF @ = "committed" THEN "done" ELSE @,
                          !.notified = TRUE]
    /\ graphCache' = afterIndexed(graphCache)
    /\ UNCHANGED <<disk, edits, storeVars, pending>>
    /\ UNCHANGED <<closed, parseCache, call>>
    /\ UNCHANGED <<ownerVars, graphVars, semanticVars>>

\* The run's writes are committed: the indexed event goes to the subscribers
\* and the run is over.
EmitIndexed ==
    /\ run.phase = "committed"
    /\ run' = [run EXCEPT !.phase = "done", !.notified = TRUE]
    /\ graphCache' = afterIndexed(graphCache)
    /\ UNCHANGED <<disk, edits, storeVars, pending>>
    /\ UNCHANGED <<closed, parseCache, call>>
    /\ UNCHANGED <<ownerVars, graphVars, semanticVars>>

IndexNext ==
    \/ \E f \in Paths, text \in Texts : WriteFile(f, text)
    \/ \E f \in Paths : RemoveFile(f)
    \/ \E f \in Paths : TouchFile(f)
    \/ FullIndex
    \/ StartIncremental
    \/ \E f \in Paths : Pass1(f)
    \/ KnownFiles
    \/ Pass2
    \/ Deletes
    \/ EmitIndexed
    \/ Fail

IndexSpec == IndexInit /\ [][IndexNext]_vars

\* The phases in which the coordinator can take a graph query: no run in
\* progress, or a run suspended at the read of a file in Pass 1.
QueryPhases == {"idle", "done", "failed", "pass1"}

\* A graph query on the owner coordinator, for one project or across all.
GetOrBuildGraph(key) ==
    /\ run.phase \in QueryPhases
    /\ LET r == getOrBuildGraph(graphCache, relationRows, key)
       IN graphCache' =
            [graph |-> r.graph, key |-> r.key,
             outdated |-> r.fromCache /\ graphCache.outdated,
             droppedOutdated |-> r.fromCache /\ graphCache.droppedOutdated,
             answer |-> IF r.fromCache
                        THEN IF graphCache.outdated THEN "cachedOutdated" ELSE "cached"
                        ELSE IF graphCache.droppedOutdated THEN "rebuilt" ELSE "built"]
    /\ UNCHANGED <<closed, parseCache, call>>
    /\ UNCHANGED <<ownerVars, graphVars, indexVars, semanticVars>>

\* An owner coordinator that indexes a changing tree and answers graph
\* queries from its cache.
CacheNext ==
    \/ \E f \in Paths, text \in Texts \ {"broken"} : WriteFile(f, text)
    \/ FullIndex
    \/ StartIncremental
    \/ \E f \in Paths : Pass1(f)
    \/ KnownFiles
    \/ Pass2
    \/ Deletes
    \/ EmitIndexed
    \/ \E key \in {CrossKey, "root"} : GetOrBuildGraph(key)

CacheSpec == IndexInit /\ [][CacheNext]_vars

\* Index runs on a store whose inserts can throw: files that parse are
\* written and saved again, full and incremental runs index them, and a
\* relation insert may fail part-way.
StoreFaultNext ==
    \/ \E f \in Paths, text \in Texts \ {"broken"} : WriteFile(f, text)
    \/ \E f \in Paths : TouchFile(f)
    \/ FullIndex
    \/ StartIncremental
    \/ \E f \in Paths : Pass1(f)
    \/ KnownFiles
    \/ Pass2
    \/ Deletes
    \/ EmitIndexed
    \/ Pass2InsertFails
    \/ \E f \in Paths : FullIndexInsertFails(f)

StoreFaultSpec == IndexInit /\ [][StoreFaultNext]_vars


\* C18: in every state of the store, every relation row's (project, source
\* file) and (destination project, destination file) are keys of file rows;
\* a destination that is not a known file never gets a row.
C18_RelationsReferToFiles ==
    \A r \in relationRows :
        /\ hasFileRow(r.project, r.srcFilePath)
        /\ hasFileRow(r.dstProject, r.dstFilePath)

\* A finished run left a relation from a.ts to store/index.ts, a file of
\* another project, the earlier candidate store.ts not being a file row.
C18_Witness ==
    /\ run.phase = "done"
    /\ ~hasFileRow("root", <<"store.ts">>)
    /\ [project |-> "root", srcFilePath |-> <<"a.ts">>,
        dstProject |-> "store-pkg", dstFilePath |-> <<"store", "index.ts">>] \in relationRows

\* C19: when a failure interrupts an incremental batch that has written to
\* the store, the store is in the state it had before the batch began.
C19_BatchAllOrNothing ==
    (run.phase = "failed" /\ run.wrote) => run.asBefore

\* C20: after an incremental run, every file that has symbol rows has them
\* under the content hash of its file row.
C20_SymbolsUnderCurrentHash ==
    (run.phase = "done" /\ run.kind = "incremental") =>
        \A s \in symbolRows :
            \E f \in fileRows : /\ f.project = s.project
                                /\ f.filePath = s.filePath
                                /\ f.contentHash = s.contentHash


\* The first candidate of one of x's imports is the file y.
importsDirectly(x, y) ==
    \E i \in DOMAIN x.imports :
        LET candidates == resolveImport(toAbsolutePath(projectRoot, x.filePath), x.imports[i])
        IN /\ candidates # <<>>
           /\ toRelativePath(projectRoot, candidates[1]) = y.filePath

hasRelation(srcFilePath, dstFilePath) ==
    \E r \in relationRows : r.srcFilePath = srcFilePath /\ r.dstFilePath = dstFilePath

\* C21: when Pass 2 of a run replaces relations, every changed file has
\* been through Pass 1 and each prepared file has its file row and its key
\* in knownFiles; so after the run a file indexed by it has a relation row
\* to every file of the same run that it imports, two new files that import
\* each other included, in whatever order the batch took them.
C21_UpsertsBeforeRelations ==
    /\ run.phase = "pass2" =>
          /\ run.todo = {}
          /\ \A i \in DOMAIN run.prepared :
                /\ hasFileRow(run.prepared[i].project, run.prepared[i].filePath)
                /\ fileKey(run.prepared[i].project, run.prepared[i].filePath) \in run.knownFiles
    /\ run.phase = "done" =>
          \A x, y \in run.indexed :
              importsDirectly(x, y) => hasRelation(x.filePath, y.filePath)

\* An incremental batch added two new files that import each other, and
\* both relation rows are there.
C21_Witness ==
    /\ run.phase = "done"
    /\ run.kind = "incremental"
    /\ \E x, y \in run.indexed :
          /\ x.filePath # y.filePath
          /\ x.isNew /\ y.isNew
          /\ importsDirectly(x, y) /\ importsDirectly(y, x)
          /\ hasRelation(x.filePath, y.filePath)
          /\ hasRelation(y.filePath, x.filePath)

\* C28: the subscribers are notified of a full or incremental run only once
\* its writes are committed: never while the run is still writing, never of
\* a run that failed, and not before the commit.
C28_IndexedAfterCommit ==
    /\ run.notified => (run.phase = "done" /\ run.kind \in {"full", "incremental"})
    /\ run.phase \in {"pass1", "pass2", "committed", "failed"} => ~run.notified

\* An incremental run that wrote rows, committed and then notified.
C28_Witness ==
    /\ run.notified
    /\ run.kind = "incremental"
    /\ run.indexed # {}

candidatesOf(filePath, spec) ==
    LET plain == resolveImport(toAbsolutePath(projectRoot, filePath), spec)
    IN IF plain = <<>> THEN resolveBareSpecifier(projectRoot, spec) ELSE plain

\* Whether a candidate's root-relative path is an indexed file.
isKnown(c, knownFiles) ==
    LET rel == toRelativePath(projectRoot, c)
    IN fileKey(resolveFileProject(rel, boundaries), rel) \in knownFiles

\* The destinations one import may be given: the earliest known candidate,
\* or nothing when no candidate is known.
firstKnownDst(filePath, spec, knownFiles) ==
    LET cands == candidatesOf(filePath, spec)
        hits == {i \in DOMAIN cands : isKnown(cands[i], knownFiles)}
    IN IF hits = {} THEN {}
       ELSE {toRelativePath(projectRoot, cands[CHOOSE i \in hits : \A j \in hits : i <= j])}

\* The knownFiles set the relations of the current run are resolved against.
RunKnownFiles == IF run.kind = "full" THEN buildKnownFiles(fileRows) ELSE run.knownFiles

\* The run has written relations that are still resolved against RunKnownFiles.
RelationsWritten ==
    \/ run.kind = "incremental" /\ run.phase = "pass2"
    \/ run.kind = "full" /\ run.phase = "committed"

\* C35: the filtering resolver answers the first candidate, in candidate
\* order, whose root-relative path is in knownFiles, and nothing when no
\* candidate is known: the relation rows of every file a run has indexed go
\* to exactly those destinations, so './store' goes to store/index.ts when
\* store.ts is not an indexed file and an import of a file that is not
\* indexed leaves no row.
C35_FirstKnownCandidate ==
    RelationsWritten =>
      \A x \in run.indexed :
        {r.dstFilePath : r \in relationsOf(relationRows, x.filePath)}
          = UNION {firstKnownDst(x.filePath, x.imports[i], RunKnownFiles) : i \in DOMAIN x.imports}

\* An incremental run has indexed a.ts, which imports './store', while
\* store/index.ts is indexed and store.ts is not: the row goes to
\* store/index.ts, and the import of the package leaves none.
C35_Witness ==
    /\ run.kind = "incremental" /\ run.phase = "pass2"
    /\ \E x \in run.indexed :
         /\ x.filePath = <<"a.ts">>
         /\ \E i \in DOMAIN x.imports : x.imports[i] = ImportStore
         /\ \E i \in DOMAIN x.imports : x.imports[i] = ImportLib
    /\ fileKey("root", <<"store.ts">>) \notin run.knownFiles
    /\ fileKey("store-pkg", <<"store", "index.ts">>) \in run.knownFiles
    /\ hasRelation(<<"a.ts">>, <<"store", "index.ts">>)
    /\ ~hasRelation(<<"a.ts">>, <<"store.ts">>)
    /\ ~\E r \in relationRows : r.dstFilePath[1] = "node_modules"

\* C34: replaceFileRelations is all-or-nothing.  After it has returned, the
\* relation rows whose source is the file are exactly the new rows; and when
\* an insert has failed part-way, in an incremental run (its own transaction
\* is the outermost) or inside fullIndex's transaction, the rows the file had
\* before the call are what the store holds for it.
C34_ReplaceIsAllOrNothing ==
    /\ RelationsWritten =>
         \A x \in run.indexed :
           LET project == resolveFileProject(x.filePath, boundaries)
           IN relationsOf(relationRows, x.filePath)
                = {[project |-> project, srcFilePath |-> rel.srcFilePath,
                    dstProject |-> rel.dstProject, dstFilePath |-> rel.dstFilePath]
                   : rel \in relRowsOf(x.imports, x.filePath, RunKnownFiles)}
    /\ run.insertFailed # <<>> => run.relationsKept

\* An insert has failed while the rows of a file that already had relation
\* rows were being replaced, and those rows are still there.
C34_Witness ==
    /\ run.phase = "failed"
    /\ run.insertFailed # <<>>
    /\ run.relationsKept
    /\ relationsOf(relationRows, run.insertFailed) # {}

parseSourceFn(filePath, sourceText) ==
    IF parseFn(sourceText).ok
    THEN [ok |-> TRUE, data |-> sourceText]
    ELSE [ok |-> FALSE, data |-> "parse"]

\* A parseSource that drops the path's cache entry when the parser fails.
parseSource_dropsOnError(isClosed, cache, filePath, sourceText) ==
    IF isClosed
    THEN [outcome |-> "threw", error |-> "closed", value |-> Undefined,
          cache |-> cache, parserCalls |-> 0]
    ELSE LET result == parseSourceFn(filePath, sourceText)
         IN IF ~result.ok
            THEN [outcome |-> "threw", error |-> result.data, value |-> Undefined,
                  cache |-> [cache EXCEPT ![filePath] = Undefined], parserCalls |-> 1]
            ELSE [outcome |-> "returned", error |-> "none", value |-> result.data,
                  cache |-> [cache EXCEPT ![filePath] = result.data], parserCalls |-> 1]

\* parseSource(ctx, filePath, sourceText): throws when closed and when the
\* parser answers an error, caches and returns the parsed file otherwise.
parseSource(isClosed, cache, filePath, sourceText) ==
    IF isClosed
    THEN [outcome |-> "threw", error |-> "closed", value |-> Undefined,
          cache |-> cache, parserCalls |-> 0]
    ELSE LET result == parseSourceFn(filePath, sourceText)
         IN IF ~result.ok
            THEN [outcome |-> "threw", error |-> result.data, value |-> Undefined,
                  cache |-> cache, parserCalls |-> 1]
            ELSE [outcome |-> "returned", error |-> "none", value |-> result.data,
                  cache |-> [cache EXCEPT ![filePath] = result.data], parserCalls |-> 1]

\* getParsedAst(ctx, filePath)
getParsedAst(isClosed, cache, filePath) ==
    IF isClosed THEN Undefined ELSE cache[filePath]

\* parsed.set(fp, data) on the batch's Map.
mapSet(parsed, fp, data) ==
    {e \in parsed : e.filePath # fp} \cup {[filePath |-> fp, data |-> data]}

\* One file of a batch, once its read has settled with `text` (Absent: the
\* read rejected): the body of the callback batchParse maps over filePaths.
batchParseFile(parsed, failures, fp, text) ==
    IF text = Absent
    THEN [parsed |-> parsed,
          failures |-> Append(failures, [filePath |-> fp, error |-> "read"]),
          parserCalls |-> 0]
    ELSE LET result == parseSourceFn(fp, text)
         IN IF result.ok
            THEN [parsed |-> mapSet(parsed, fp, result.data), failures |-> failures,
                  parserCalls |-> 1]
            ELSE [parsed |-> parsed,
                  failures |-> Append(failures, [filePath |-> fp, error |-> result.data]),
                  parserCalls |-> 1]

\* The arrays of paths a caller hands to batchParse.
BatchInputs == UNION {[1..n -> Paths] : n \in 0..MaxBatch}

\* The project the parse API starts on: a file the parser accepts, one it
\* rejects and a path with no file.
ParseDisk ==
    [f \in Paths |-> IF f = <<"a.ts">> THEN "plain"
                     ELSE IF f = <<"store.ts">> THEN "broken" ELSE Absent]

ParseInit ==
    /\ OwnerIdle
    /\ GraphIdle
    /\ ApiIdle
    /\ SemanticIdle
    /\ disk = ParseDisk
    /\ edits = 0
    /\ fileRows = {} /\ symbolRows = {} /\ relationRows = {}
    /\ pending = [changed |-> {}, deleted |-> {}]
    /\ run = NoRun

\* The source texts the parse API is exercised with: one the parser accepts
\* and one it rejects.
ParseTexts == {"plain", "broken"}

\* No batchParse is waiting for its reads.
Settled == call.phase = "done"

\* close(): the instance is closed for good.
Close ==
    /\ ~closed
    /\ closed' = TRUE
    /\ UNCHANGED <<parseCache, call, graphCache>>
    /\ UNCHANGED <<ownerVars, graphVars, indexVars, semanticVars>>

ParseSource(filePath, sourceText) ==
    /\ Settled
    /\ LET r == parseSource(closed, parseCache, filePath, sourceText)
       IN /\ parseCache' = r.cache
          /\ call' = [NoApiCall EXCEPT !.op = "parseSource", !.wasClosed = closed,
                         !.outcome = r.outcome, !.error = r.error, !.value = r.value,
                         !.filePath = filePath, !.sourceText = sourceText,
                         !.parserCalls = r.parserCalls]
    /\ UNCHANGED <<closed, graphCache>>
    /\ UNCHANGED <<ownerVars, graphVars, indexVars, semanticVars>>

GetParsedAst(filePath) ==
    /\ Settled
    /\ call' = [NoApiCall EXCEPT !.op = "getParsedAst", !.wasClosed = closed,
                   !.outcome = "returned", !.filePath = filePath,
                   !.value = getParsedAst(closed, parseCache, filePath)]
    /\ UNCHANGED <<closed, parseCache, graphCache>>
    /\ UNCHANGED <<ownerVars, graphVars, indexVars, semanticVars>>

\* batchParse up to its first await: the closed check, and one read started
\* per requested path.
BatchParse(filePaths) ==
    /\ Settled
    /\ call' = IF closed
               THEN [NoApiCall EXCEPT !.op = "batchParse", !.wasClosed = TRUE,
                        !.outcome = "threw", !.error = "closed",
                        !.filePaths = filePaths]
               ELSE [NoApiCall EXCEPT !.op = "batchParse", !.phase = "reading",
                        !.filePaths = filePaths, !.waiting = DOMAIN filePaths]
    /\ UNCHANGED <<closed, parseCache, graphCache>>
    /\ UNCHANGED <<ownerVars, graphVars, indexVars, semanticVars>>

\* The read of the i-th requested path settles and its callback runs on.
BatchRead(i) ==
    /\ call.phase = "reading"
    /\ i \in call.waiting
    /\ LET fp == call.filePaths[i]
           r == batchParseFile(call.parsed, call.failures, fp, disk[fp])
       IN call' = [call EXCEPT !.waiting = @ \ {i}, !.parsed = r.parsed,
                      !.failures = r.failures, !.fileReads = @ + 1,
                      !.parserCalls = @ + r.parserCalls]
    /\ UNCHANGED <<closed, parseCache, graphCache>>
    /\ UNCHANGED <<ownerVars, graphVars, indexVars, semanticVars>>

\* Promise.all resolves: batchParse returns { parsed, failures }.
BatchReturn ==
    /\ call.phase = "reading"
    /\ call.waiting = {}
    /\ call' = [call EXCEPT !.phase = "done", !.outcome = "returned"]
    /\ UNCHANGED <<closed, parseCache, graphCache>>
    /\ UNCHANGED <<ownerVars, graphVars, indexVars, semanticVars>>

\* The file of a read that has not settled yet changes on disk.  The parse
\* API looks at the disk nowhere else, so other changes are left out.
Waited(f) == ~Settled /\ \E i \in call.waiting : call.filePaths[i] = f

ParseNext ==
    \/ Close
    \/ \E f \in Paths, text \in ParseTexts : ParseSource(f, text)
    \/ \E f \in Paths : GetParsedAst(f)
    \/ \E filePaths \in BatchInputs : BatchParse(filePaths)
    \/ \E i \in 1..MaxBatch : BatchRead(i)
    \/ BatchReturn
    \/ \E f \in Paths, text \in ParseTexts : Waited(f) /\ WriteFile(f, text)
    \/ \E f \in Paths : Waited(f) /\ RemoveFile(f)

ParseSpec == ParseInit /\ [][ParseNext]_vars

\* The batch that returned holds fp in its parsed map / in its failures.
inParsed(fp) == \E e \in call.parsed : e.filePath = fp
inFailures(fp) == \E k \in DOMAIN call.failures : call.failures[k].filePath = fp

\* C22: a call made on a closed instance, whichever operation it is, fails
\* with a closed error and has neither called the parser nor read a file.
C22_ClosedFailsFast ==
    (Settled /\ call.op # "none" /\ call.wasClosed) =>
        /\ call.error = "closed"
        /\ call.parserCalls = 0
        /\ call.fileReads = 0

\* C23: when batchParse returns, every requested path is in parsed or in
\* failures, and in exactly one of the two.
C23_EveryPathParsedOrFailed ==
    (Settled /\ call.op = "batchParse" /\ call.outcome = "returned") =>
        \A i \in DOMAIN call.filePaths :
            inParsed(call.filePaths[i]) # inFailures(call.filePaths[i])

\* C24: no call ends by raising an exception to its caller; a failure is a
\* returned value.
C24_NeverRaises ==
    Settled => call.outcome # "threw"

\* What one step of the parse API may do to the parse cache.
CacheStep ==
    /\ (call'.op = "parseSource" /\ call'.outcome = "threw") => parseCache' = parseCache
    /\ (call' # call /\ call'.op = "parseSource" /\ call'.outcome = "returned")
       => /\ parseFn(call'.sourceText).ok
          /\ ~closed
          /\ parseCache' = [parseCache EXCEPT ![call'.filePath] = call'.value]
    /\ call'.op \in {"batchParse", "getParsedAst"} => parseCache' = parseCache
    /\ (call' # call /\ call'.op = "getParsedAst")
       => call'.value = IF closed THEN Undefined ELSE parseCache[call'.filePath]

\* C38: parseSource writes the parse cache only on success (closed, or the
\* parser answering an error, it throws and leaves the cache as it was);
\* batchParse and getParsedAst never modify the cache, and getParsedAst on an
\* open instance answers what the cache holds for the path: the file the
\* last successful parseSource of that path stored.
C38_CacheWrittenOnlyOnSuccess == [][CacheStep]_vars

\* A parse the parser rejected has left the file cached earlier for the
\* path in place.
C38_Witness ==
    /\ call.op = "parseSource" /\ call.outcome = "threw" /\ call.error = "parse"
    /\ ~closed
    /\ parseCache[call.filePath] # Undefined

(***************************************************************************)
(* Semantic layer.  The program tracks the content notified for each file; *)
(* the symbol graph caches the files whose symbols were collected.         *)
(***************************************************************************)

\* The declared types the tracked sources are written with.
Contents == {"number", "string"}

\* What a caller can see of the layer: isDisposed and what the queries read.
Observable(l) ==
    [isDisposed |-> l.isDisposed, program |-> l.program, symbolGraph |-> l.symbolGraph]

\* dispose() releasing the program again on every call: the second release
\* throws.
dispose_unguarded(l) ==
    IF l.isDisposed
    THEN [layer |-> l, outcome |-> "threw"]
    ELSE [layer |-> [l EXCEPT !.isDisposed = TRUE,
                              !.program = [f \in Paths |-> Undefined],
                              !.symbolGraph = {}],
          outcome |-> "returned"]

\* dispose(): nothing to do on a disposed layer; otherwise isDisposed is set,
\* the program released and the symbol graph cleared.
dispose(l) ==
    IF l.isDisposed
    THEN [layer |-> l, outcome |-> "returned"]
    ELSE [layer |-> [l EXCEPT !.isDisposed = TRUE,
                              !.program = [f \in Paths |-> Undefined],
                              !.symbolGraph = {}],
          outcome |-> "returned"]

\* collectTypeAt / getModuleInterface: throw on a disposed layer, otherwise
\* answer from the program and cache the file's symbols.
query(l, name, filePath) ==
    IF l.isDisposed
    THEN [l EXCEPT !.op = name, !.wasDisposed = TRUE, !.outcome = "threw",
                   !.value = Undefined]
    ELSE [l EXCEPT !.op = name, !.wasDisposed = FALSE, !.outcome = "returned",
                   !.value = l.program[filePath],
                   !.symbolGraph = IF l.program[filePath] = Undefined
                                   THEN @ ELSE @ \cup {filePath}]

\* notifyFileChanged: TscProgram.notifyFileChanged and SymbolGraph.invalidate;
\* a disposed layer takes no change.
notifyFileChanged(l, filePath, content) ==
    IF l.isDisposed
    THEN [l EXCEPT !.op = "notifyFileChanged", !.wasDisposed = TRUE,
                   !.outcome = "rejected", !.value = Undefined]
    ELSE [l EXCEPT !.op = "notifyFileChanged", !.wasDisposed = FALSE,
                   !.outcome = "returned", !.value = Undefined,
                   !.program = [@ EXCEPT ![filePath] = content],
                   !.symbolGraph = @ \ {filePath}]

SemanticInit ==
    /\ OwnerIdle
    /\ GraphIdle
    /\ IndexIdle
    /\ ApiIdle
    /\ SemanticIdle

NotifyFileChanged(filePath, content) ==
    /\ layer' = notifyFileChanged(layer, filePath, content)
    /\ UNCHANGED <<ownerVars, graphVars, indexVars, apiVars>>

CollectTypeAt(filePath) ==
    /\ layer' = query(layer, "collectTypeAt", filePath)
    /\ UNCHANGED <<ownerVars, graphVars, indexVars, apiVars>>

GetModuleInterface(filePath) ==
    /\ layer' = query(layer, "getModuleInterface", filePath)
    /\ UNCHANGED <<ownerVars, graphVars, indexVars, apiVars>>

Dispose ==
    /\ Len(layer.disposeOutcomes) < MaxDisposals
    /\ LET r == dispose(layer)
       IN layer' = [r.layer EXCEPT
                        !.op = "dispose", !.wasDisposed = layer.isDisposed,
                        !.outcome = r.outcome, !.value = Undefined,
                        !.disposeOutcomes = Append(@, r.outcome),
                        !.afterFirst = IF layer.disposeOutcomes = <<>>
                                       THEN Observable(r.layer) ELSE @]
    /\ UNCHANGED <<ownerVars, graphVars, indexVars, apiVars>>

SemanticNext ==
    \/ \E f \in Paths, content \in Contents : NotifyFileChanged(f, content)
    \/ \E f \in Paths : CollectTypeAt(f)
    \/ \E f \in Paths : GetModuleInterface(f)
    \/ Dispose

SemanticSpec == SemanticInit /\ [][SemanticNext]_vars

\* C29: a second dispose() returns without throwing and leaves the layer as
\* the first left it: disposed, and with every operation called on it
\* rejected.
C29_DisposeTwiceAsOnce ==
    /\ \A k \in DOMAIN layer.disposeOutcomes : layer.disposeOutcomes[k] = "returned"
    /\ layer.disposeOutcomes # <<>> =>
          /\ layer.isDisposed
          /\ Observable(layer) = layer.afterFirst
          /\ (layer.op # "dispose" => layer.outcome \in {"threw", "rejected"})

\* After two disposals a type query is made, and it throws.
C29_Witness ==
    /\ Len(layer.disposeOutcomes) >= 2
    /\ layer.op = "collectTypeAt"
    /\ layer.wasDisposed
    /\ layer.outcome = "threw"

====
